---- MODULE Spec2Model ----
(***************************************************************************)
(* A model of the FE8 randomizer core (worlds/fe8): the unit randomization *)
(* pass of FE8Randomizer over spawn-record blocks, its post passes, the    *)
(* coordinate rewrite, the movement-cost fix-up and the patch emission of  *)
(* rom.py.  The ROM is a byte array indexed by absolute offset; only the   *)
(* offsets the code touches are kept in its domain.                        *)
(***************************************************************************)
EXTENDS Integers, Sequences, FiniteSets, TLC

(***************************************************************************)
(* Program constants (worlds/fe8/constants.py, connector_config.py).       *)
(***************************************************************************)
ROM_BASE_ADDRESS == 134217728
LOCKPICK == 107
CHEST_KEY_5 == 121
CHAPTER_UNIT_SIZE == 20
INVENTORY_INDEX == 12
INVENTORY_SIZE == 4
COORDS_INDEX == 4
REDA_COUNT_INDEX == 7
REDA_PTR_INDEX == 8
CHARACTER_TABLE_BASE == 8404272
CHARACTER_SIZE == 52
CHARACTER_WRANK_OFFSET == 20
CHARACTER_STATS_OFFSET == 12
CHAR_ABILITY_4_OFFSET == 43
JOB_TABLE_BASE == 8417552
JOB_SIZE == 84
JOB_STATS_OFFSET == 11
STATS_COUNT == 6
EIRIKA == 1
EIRIKA_LORD == 2
EIRIKA_LOCK == 16
EPHRAIM == 15
EPHRAIM_LORD == 1
EPHRAIM_LOCK == 32
EIRIKA_RAPIER_OFFSET == 10416264
ROSS_CH2_HP_OFFSET == 10421176
MOVEMENT_COST_TABLE_BASE == 8435720
MOVEMENT_COST_ENTRY_SIZE == 65
MOVEMENT_COST_ENTRY_COUNT == 49
MOVEMENT_COST_SENTINEL == 31
IMPASSABLE == 255
DRACOZOMBIE_JOB_ID == 101
SLOT_NAME_ADDR == 15716444
SUPER_DEMON_KING_OFFS == 15716508
LOCATION_INFO_OFFS == 15716512
LOCATION_INFO_SIZE == 4
SLOT_NAME_CAP == 63
AP_ITEM_KIND == 1
SELF_ITEM_KIND == 2

IMPORTANT_TERRAIN_TYPES ==
  << 14, 15, 16, 17, 18, 19, 20, 21, 22, 23, 26, 39, 47, 51, 54, 55,
     57, 58, 59, 60, 61, 62 >>

\* AI1_INDEX is imported by fe8py.py but constants.py does not define it; the
\* spawn record keeps its four AI bytes after the inventory.
AI1_INDEX == 16

(***************************************************************************)
(* WeaponKind and WeaponRank (IntEnum values).                             *)
(***************************************************************************)
SWORD == 0
LANCE == 1
AXE == 2
BOW == 3
STAFF == 4
ANIMA == 5
LIGHT == 6
DARK == 7
ITEM == 9
MONSTER_WEAPON == 11
RING == 12
DRAGONSTONE == 17

RANK_E == 1
RANK_D == 31
RANK_C == 71
RANK_B == 121
RANK_A == 181
RANK_S == 251

WeaponKind ==
  { SWORD, LANCE, AXE, BOW, STAFF, ANIMA, LIGHT, DARK, ITEM, MONSTER_WEAPON,
    RING, DRAGONSTONE }

WeaponRank == { RANK_E, RANK_D, RANK_C, RANK_B, RANK_A, RANK_S }

\* WeaponKind.damaging
damaging(kind) == kind \notin { STAFF, ITEM, RING }

(***************************************************************************)
(* Integer helpers: Python's bit operators on non-negative integers.       *)
(***************************************************************************)
RECURSIVE BitAnd(_, _)
BitAnd(a, b) ==
  IF a = 0 \/ b = 0 THEN 0
  ELSE (a % 2) * (b % 2) + 2 * BitAnd(a \div 2, b \div 2)

RECURSIVE BitOr(_, _)
BitOr(a, b) ==
  IF a = 0 THEN b
  ELSE IF b = 0 THEN a
  ELSE (IF a % 2 = 1 \/ b % 2 = 1 THEN 1 ELSE 0) + 2 * BitOr(a \div 2, b \div 2)

RECURSIVE Pow2(_)
Pow2(n) == IF n = 0 THEN 1 ELSE 2 * Pow2(n - 1)

ShiftLeft(a, n) == a * Pow2(n)
ShiftRight(a, n) == a \div Pow2(n)

Max(a, b) == IF a >= b THEN a ELSE b
Min(a, b) == IF a <= b THEN a ELSE b

Range(f) == { f[i] : i \in DOMAIN f }

RECURSIVE SelectSeqBy(_, _)
\* [e for e in s if e in keep], order kept
SelectSeqBy(s, keep) ==
  IF s = << >> THEN << >>
  ELSE (IF Head(s) \in keep THEN << Head(s) >> ELSE << >>)
       \o SelectSeqBy(Tail(s), keep)

(***************************************************************************)
(* Static data catalog.  The JSON documents (weapondata.json, jobdata.json,*)
(* characters.json, chapter_unit_blocks.json) are inputs of the            *)
(* constructor; the tables below are one small instance of them, holding   *)
(* every entry the constructor and the post passes look up by name.        *)
(***************************************************************************)
Weapon(id, name, rank, kind, locks) ==
  [ id |-> id, name |-> name, rank |-> rank, kind |-> kind, locks |-> locks ]

\* fetch_json(WEAPON_DATA, object_hook=WeaponData.of_object), in file order
item_data ==
  << Weapon(1, "Iron Sword", RANK_E, SWORD, {}),
     Weapon(9, "Rapier", RANK_E, SWORD, {"lord"}),
     Weapon(3, "Steel Sword", RANK_D, SWORD, {}),
     Weapon(6, "Steel Blade", RANK_C, SWORD, {}),
     Weapon(4, "Silver Sword", RANK_A, SWORD, {}),
     Weapon(20, "Iron Lance", RANK_E, LANCE, {}),
     Weapon(22, "Steel Lance", RANK_D, LANCE, {}),
     Weapon(75, "Heal", RANK_E, STAFF, {}),
     Weapon(76, "Mend", RANK_D, STAFF, {}),
     Weapon(77, "Recover", RANK_C, STAFF, {}),
     Weapon(69, "Flux", RANK_D, DARK, {}),
     Weapon(172, "Fiery Fang", RANK_E, MONSTER_WEAPON, {}),
     Weapon(173, "Hellfang", RANK_E, MONSTER_WEAPON, {}),
     Weapon(171, "Fetid Claw", RANK_E, MONSTER_WEAPON, {}) >>

Job(id, name, is_promoted, usable_weapons, tags) ==
  [ id |-> id, name |-> name, is_promoted |-> is_promoted,
    usable_weapons |-> usable_weapons, tags |-> tags ]

\* fetch_json(JOB_DATA, object_hook=JobData.of_object), in file order
raw_job_data ==
  << Job(1, "Ephraim Lord", FALSE, {LANCE}, {"no_rando", "lord"}),
     Job(2, "Eirika Lord", FALSE, {SWORD}, {"no_rando", "lord"}),
     Job(5, "Cavalier", FALSE, {SWORD, LANCE}, {}),
     Job(72, "Pegasus Knight", FALSE, {LANCE}, {"flying"}),
     Job(74, "Cleric", FALSE, {STAFF}, {}),
     Job(45, "Shaman", FALSE, {DARK}, {}),
     Job(13, "Thief", FALSE, {SWORD}, {"Lockpick"}),
     Job(89, "Mauthe Doog", FALSE, {MONSTER_WEAPON}, {"monster"}),
     Job(82, "Revenant", FALSE, {MONSTER_WEAPON}, {"monster"}),
     Job(7, "Paladin", TRUE, {SWORD, LANCE}, {}),
     Job(9, "Great Knight", TRUE, {SWORD, LANCE, AXE}, {}),
     Job(73, "Falcoknight", TRUE, {SWORD, LANCE}, {"flying"}),
     Job(101, "Dracozombie", TRUE, {MONSTER_WEAPON}, {"monster", "flying"}),
     Job(60, "Civilian", FALSE, {}, {}) >>

\* job_data = [job for job in job_data if job.usable_weapons]
job_data == SelectSeq(raw_job_data, LAMBDA job : job.usable_weapons # {})

\* fetch_json(CHARACTERS): name -> {ids, tags}
char_data ==
  [ Eirika |-> [ ids |-> << 1 >>, tags |-> {} ],
    Ephraim |-> [ ids |-> << 15 >>, tags |-> {} ],
    Orson |-> [ ids |-> << 66, 109 >>, tags |-> {"must_fight", "no_flying"} ] ]

CharNames == DOMAIN char_data

\* CharacterStore.__init__: names_by_id
names_by_id ==
  [ i \in UNION { Range(char_data[n].ids) : n \in CharNames } |->
      CHOOSE n \in CharNames : i \in Range(char_data[n].ids) ]

\* CharacterStore.__init__: character_tags
character_tags == [ n \in CharNames |-> char_data[n].tags ]

\* CharacterStore.__init__: ids_by_name
ids_by_name == [ n \in CharNames |-> char_data[n].ids ]

\* FE8Randomizer.__init__: weapons_by_id, weapons_by_name, jobs_by_id
weapons_by_id ==
  [ i \in { item_data[k].id : k \in DOMAIN item_data } |->
      item_data[CHOOSE k \in DOMAIN item_data :
                  /\ item_data[k].id = i
                  /\ \A m \in DOMAIN item_data : item_data[m].id = i => m <= k] ]

weapons_by_name ==
  [ n \in { item_data[k].name : k \in DOMAIN item_data } |->
      item_data[CHOOSE k \in DOMAIN item_data :
                  /\ item_data[k].name = n
                  /\ \A m \in DOMAIN item_data : item_data[m].name = n => m <= k] ]

jobs_by_id ==
  [ i \in { job_data[k].id : k \in DOMAIN job_data } |->
      job_data[CHOOSE k \in DOMAIN job_data :
                 /\ job_data[k].id = i
                 /\ \A m \in DOMAIN job_data : job_data[m].id = i => m <= k] ]

\* FE8Randomizer.__init__: promoted_jobs, unpromoted_jobs
promoted_jobs ==
  SelectSeq(job_data, LAMBDA job : job.is_promoted /\ "no_rando" \notin job.tags)

unpromoted_jobs ==
  SelectSeq(job_data, LAMBDA job : ~job.is_promoted /\ "no_rando" \notin job.tags)

\* the rank buckets before the constructor appends its fallbacks
RankBucket(rank) == SelectSeq(item_data, LAMBDA weap : weap.rank = rank)

\* the weapons the constructor appends to a rank bucket, in order
InjectedFallbacks(rank) ==
  CASE rank = RANK_E -> << weapons_by_name["Flux"] >>
    [] rank = RANK_D -> << weapons_by_name["Fiery Fang"] >>
    [] rank = RANK_C -> << weapons_by_name["Fiery Fang"] >>
    [] rank = RANK_A -> << weapons_by_name["Hellfang"], weapons_by_name["Fetid Claw"] >>
    [] OTHER -> << >>

\* FE8Randomizer.__init__: weapons_by_rank (a defaultdict(list))
weapons_by_rank(rank) == RankBucket(rank) \o InjectedFallbacks(rank)

(***************************************************************************)
(* Logic bags.  A logic dict maps a key to a Python value; the values that *)
(* occur are absent, True, False and the dict {"at_least": N}.             *)
(***************************************************************************)
Absent == << "absent", 0 >>
PyTrue == << "bool", 1 >>
PyFalse == << "bool", 0 >>
AtLeast(n) == << "at_least", n >>

LogicKeys ==
  { "must_fly", "must_fight", "no_fly", "no_flying", "no_store", "ignore",
    "player" }

EmptyLogic == [ k \in LogicKeys |-> Absent ]

\* `k in logic`
Has(logic, k) == logic[k] # Absent

\* bool(logic[k]) for a key that is present: a non-empty dict is true
Truthy(v) == v[1] = "at_least" \/ (v[1] = "bool" /\ v[2] = 1)

\* x.startswith("no_")
StartsWithNo(k) == k \in { "no_fly", "no_flying", "no_store" }

\* x.removeprefix("no_")
RemovePrefixNo(k) ==
  CASE k = "no_fly" -> "fly"
    [] k = "no_flying" -> "flying"
    [] k = "no_store" -> "store"
    [] OTHER -> k

(***************************************************************************)
(* Eligibility engine.                                                     *)
(***************************************************************************)
\* weapon_usable(weapon, job, logic)
weapon_usable(weapon, job, logic) ==
  /\ weapon.kind \in job.usable_weapons
  /\ ~(\E lock \in weapon.locks : lock \notin job.tags)
  /\ ~(Has(logic, "must_fight") /\ weapon.kind \in { ITEM, STAFF, RING })

\* the notags set job_valid builds
NoTags(logic, player_monster) ==
  (IF Has(logic, "player") /\ Truthy(logic["player"]) /\ ~player_monster
     THEN {"monster"} ELSE {})
  \cup { RemovePrefixNo(x) : x \in { k \in LogicKeys :
           Has(logic, k) /\ StartsWithNo(k) /\ Truthy(logic[k]) } }

\* FE8Randomizer.job_valid(job, char, logic)
job_valid(job, logic, player_monster) ==
  /\ NoTags(logic, player_monster) \cap job.tags = {}
  /\ job.name \notin { "Dracozombie", "Revenant", "Entombed" }
  /\ ~(Has(logic, "must_fly") /\ Truthy(logic["must_fly"])
       /\ "flying" \notin job.tags)
  /\ ~(Has(logic, "must_fight") /\ Truthy(logic["must_fight"])
       /\ \A wtype \in job.usable_weapons : ~damaging(wtype))

(***************************************************************************)
(* The injected random source.  random.Random is the caller's seeded       *)
(* generator: its state is an integer, every draw is a function of that    *)
(* state and advances it.                                                  *)
(***************************************************************************)
RandomModulus == 1009

\* the generator's state after one draw
Advance(rng) == (rng * 31 + 7) % RandomModulus

\* Random._randbelow(n) on state rng, n > 0
RandBelow(rng, n) == rng % n

RECURSIVE SamplePool(_, _, _, _)
\* Random.sample's pool selection: k draws from a pool of n live entries
SamplePool(pool, n, k, rng) ==
  IF k = 0 THEN [ picked |-> << >>, rng |-> rng ]
  ELSE LET j == RandBelow(rng, n) + 1
           rest == SamplePool([pool EXCEPT ![j] = pool[n]], n - 1, k - 1,
                              Advance(rng))
       IN [ picked |-> << pool[j] >> \o rest.picked, rng |-> rest.rng ]

\* random.sample(range(count), k); ValueError when k > count
Sample(count, k, rng) ==
  IF k > count \/ k < 0 THEN [ ok |-> FALSE, picked |-> << >>, rng |-> rng ]
  ELSE LET r == SamplePool([ i \in 1..count |-> i - 1 ], count, k, rng)
       IN [ ok |-> TRUE, picked |-> r.picked, rng |-> r.rng ]

(***************************************************************************)
(* Byte-level helpers of util.py (util.py is not among the sources: the    *)
(* three helpers are little-endian accessors).                             *)
(***************************************************************************)
read_short_le(rom, offset) == rom[offset] + 256 * rom[offset + 1]

read_word_le(rom, offset) ==
  rom[offset] + 256 * rom[offset + 1] + 65536 * rom[offset + 2]
  + 16777216 * rom[offset + 3]

write_short_le(rom, offset, val) ==
  [ rom EXCEPT ![offset] = val % 256, ![offset + 1] = (val \div 256) % 256 ]

(***************************************************************************)
(* Coordinates.                                                            *)
(***************************************************************************)
\* encode_unit_coords(x, y) = y << 6 | x
encode_unit_coords(x, y) == BitOr(ShiftLeft(y, 6), x)

\* the inverse the game applies: x in bits 0..5, y in bits 6..11
decode_unit_coords(c) == << c % 64, (c \div 64) % 64 >>

\* the variant a wrong mask would give (keeps only 3 flag bits)
rewrite_coords_narrow_mask(rom, offset, x, y) ==
  LET old_coords == read_short_le(rom, offset)
      flags == BitAnd(old_coords, 57344)
  IN write_short_le(rom, offset, BitOr(encode_unit_coords(x, y), flags))

\* FE8Randomizer.rewrite_coords
rewrite_coords(rom, offset, x, y) ==
  LET old_coords == read_short_le(rom, offset)
      flags == BitAnd(old_coords, 61440)
      new_coords == encode_unit_coords(x, y)
  IN write_short_le(rom, offset, BitOr(new_coords, flags))

\* a nudges dict: keys "start", "0", "1", ... to [x, y]
NoNudges == [ k \in {} |-> << 0, 0 >> ]

\* str(i) for the REDA indices a block can hold
IndexKey(i) == IF i = 0 THEN "0" ELSE IF i = 1 THEN "1" ELSE "2"

RECURSIVE NudgeRedas(_, _, _, _, _)
NudgeRedas(rom, redas_offs, nudges, i, reda_count) ==
  IF i >= reda_count THEN rom
  ELSE NudgeRedas(
         IF IndexKey(i) \in DOMAIN nudges
           THEN rewrite_coords(rom, redas_offs + 8 * i, nudges[IndexKey(i)][1],
                               nudges[IndexKey(i)][2])
           ELSE rom,
         redas_offs, nudges, i + 1, reda_count)

\* FE8Randomizer.apply_nudges
apply_nudges(rom, data_offset, nudges) ==
  LET rom1 == IF "start" \in DOMAIN nudges
                THEN rewrite_coords(rom, data_offset + COORDS_INDEX,
                                    nudges["start"][1], nudges["start"][2])
                ELSE rom
      reda_count == rom1[data_offset + REDA_COUNT_INDEX]
      redas_addr == read_word_le(rom1, data_offset + REDA_PTR_INDEX)
      redas_offs == redas_addr - ROM_BASE_ADDRESS
  IN NudgeRedas(rom1, redas_offs, nudges, 0, reda_count)

(***************************************************************************)
(* Character continuity store.  character_jobs is a dict from canonical    *)
(* name to the id of the stored JobData.                                   *)
(***************************************************************************)
EmptyStore == [ n \in {} |-> 0 ]

\* CharacterStore.lookup_name: the name, or "None"
lookup_name(char_id) ==
  IF char_id \notin DOMAIN names_by_id THEN "None" ELSE names_by_id[char_id]

\* CharacterStore.tags(char) for an int; None is read as the empty set
tags(char) ==
  IF char \notin DOMAIN names_by_id THEN {} ELSE character_tags[names_by_id[char]]

\* a membership test that does not resolve alias ids: only the character's
\* first id finds the entry
ContainsFirstIdOnly(character_jobs, char) ==
  IF char \notin DOMAIN names_by_id THEN FALSE
  ELSE /\ ids_by_name[names_by_id[char]][1] = char
       /\ names_by_id[char] \in DOMAIN character_jobs

\* CharacterStore.__contains__ for an int
Contains(character_jobs, char) ==
  IF char \notin DOMAIN names_by_id THEN FALSE
  ELSE names_by_id[char] \in DOMAIN character_jobs

\* a store that overwrites only the first alias id's own entry
SetItemFirstIdOnly(character_jobs, char, job_id) ==
  IF char \notin DOMAIN names_by_id THEN character_jobs
  ELSE IF ids_by_name[names_by_id[char]][1] # char THEN character_jobs
  ELSE [ n \in DOMAIN character_jobs \cup { names_by_id[char] } |->
           IF n = names_by_id[char] THEN job_id ELSE character_jobs[n] ]

\* CharacterStore.__setitem__ for an int
SetItem(character_jobs, char, job_id) ==
  IF char \notin DOMAIN names_by_id THEN character_jobs
  ELSE [ n \in DOMAIN character_jobs \cup { names_by_id[char] } |->
           IF n = names_by_id[char] THEN job_id ELSE character_jobs[n] ]

\* CharacterStore.__getitem__ for an int known to be contained
GetItem(character_jobs, char) == jobs_by_id[character_jobs[names_by_id[char]]]

\* CharacterStore.__getitem__ for any int: both subscripts can raise KeyError
TryGetItem(character_jobs, char) ==
  IF char \notin DOMAIN names_by_id THEN [ ok |-> FALSE, error |-> "KeyError" ]
  ELSE IF names_by_id[char] \notin DOMAIN character_jobs THEN [ ok |-> FALSE, error |-> "KeyError" ]
  ELSE [ ok |-> TRUE, found |-> TRUE, val |-> character_jobs[names_by_id[char]] ]

\* CharacterStore.tags for any int: None for an id outside the alias table
TryTags(char) ==
  IF char \notin DOMAIN names_by_id THEN [ ok |-> TRUE, found |-> FALSE ]
  ELSE [ ok |-> TRUE, found |-> TRUE, val |-> tags(char) ]

\* CharacterStore.lookup_name for any int
TryLookupName(char_id) ==
  IF char_id \notin DOMAIN names_by_id THEN [ ok |-> TRUE, found |-> FALSE ]
  ELSE [ ok |-> TRUE, found |-> TRUE, val |-> lookup_name(char_id) ]

(***************************************************************************)
(* Unit randomization: the pure parts of randomize_chapter_unit.           *)
(***************************************************************************)
\* Iteration order of a set of str: it depends on the process's string hash
\* seed, so two runs may enumerate the same set in different orders.
TagOrder == << "must_fight", "must_fly", "no_fly", "no_flying", "no_store",
               "ignore", "player" >>

Reverse(s) == [ i \in 1..Len(s) |-> s[Len(s) + 1 - i] ]

SetIteration(S, hashseed) ==
  SelectSeqBy(IF hashseed = 0 THEN TagOrder ELSE Reverse(TagOrder), S)

RECURSIVE MergeTagSeq(_, _)
MergeTagSeq(logic, ts) ==
  IF ts = << >> THEN logic
  ELSE MergeTagSeq(
         IF ~Has(logic, Head(ts)) THEN [logic EXCEPT ![Head(ts)] = PyTrue]
         ELSE logic,
         Tail(ts))

\* a merge loop that stops after the first tag it visits
MergeCharTagsFirstOnly(logic, ctags, hashseed) ==
  LET ts == SetIteration(ctags, hashseed)
  IN IF ts = << >> THEN logic ELSE MergeTagSeq(logic, << Head(ts) >>)

\* for t in ctags: if t not in logic: logic[t] = True
MergeCharTags(logic, ctags, hashseed) ==
  MergeTagSeq(logic, SetIteration(ctags, hashseed))

\* the candidates select_new_item draws from, in bucket order
WeaponChoices(job, rank, logic) ==
  SelectSeq(weapons_by_rank(rank), LAMBDA weap : weapon_usable(weap, job, logic))

\* random.choice(seq) on generator state rng; ok = FALSE is the IndexError
\* of an empty sequence
Choice(seq, rng) ==
  IF seq = << >> THEN [ ok |-> FALSE, rng |-> rng, val |-> << >> ]
  ELSE [ ok |-> TRUE, rng |-> Advance(rng),
         val |-> seq[RandBelow(rng, Len(seq)) + 1] ]

\* `.id` of the chosen weapon
ChosenId(c, item_id) ==
  [ ok |-> c.ok, rng |-> c.rng, id |-> IF c.ok THEN c.val.id ELSE item_id ]

\* select_new_item drawing from every usable catalog weapon, whatever its rank
select_new_item_any_rank(job, item_id, logic, rng) ==
  IF item_id = LOCKPICK
    THEN [ ok |-> TRUE, rng |-> rng,
           id |-> IF "Lockpick" \in job.tags THEN LOCKPICK ELSE CHEST_KEY_5 ]
  ELSE IF item_id \notin DOMAIN weapons_by_id
    THEN [ ok |-> TRUE, rng |-> rng, id |-> item_id ]
  ELSE ChosenId(Choice(SelectSeq(item_data,
                                 LAMBDA weap : weapon_usable(weap, job, logic)),
                       rng), item_id)

\* select_new_item keeping the original item when no weapon is usable
select_new_item_keep_on_empty(job, item_id, logic, rng) ==
  IF item_id = LOCKPICK
    THEN [ ok |-> TRUE, rng |-> rng,
           id |-> IF "Lockpick" \in job.tags THEN LOCKPICK ELSE CHEST_KEY_5 ]
  ELSE IF item_id \notin DOMAIN weapons_by_id
    THEN [ ok |-> TRUE, rng |-> rng, id |-> item_id ]
  ELSE IF WeaponChoices(job, weapons_by_id[item_id].rank, logic) = << >>
    THEN [ ok |-> TRUE, rng |-> rng, id |-> item_id ]
  ELSE ChosenId(Choice(WeaponChoices(job, weapons_by_id[item_id].rank, logic),
                       rng), item_id)

\* select_new_item emptying every slot whose item is not in the catalog
select_new_item_drop_unknown(job, item_id, logic, rng) ==
  IF item_id = LOCKPICK
    THEN [ ok |-> TRUE, rng |-> rng,
           id |-> IF "Lockpick" \in job.tags THEN LOCKPICK ELSE CHEST_KEY_5 ]
  ELSE IF item_id \notin DOMAIN weapons_by_id
    THEN [ ok |-> TRUE, rng |-> rng, id |-> 0 ]
  ELSE ChosenId(Choice(WeaponChoices(job, weapons_by_id[item_id].rank, logic),
                       rng), item_id)

\* FE8Randomizer.select_new_item; ok = FALSE is random.choice([]) raising
\* IndexError after the "LOGIC ERROR" log lines
select_new_item(job, item_id, logic, rng) ==
  IF item_id = LOCKPICK
    THEN [ ok |-> TRUE, rng |-> rng,
           id |-> IF "Lockpick" \in job.tags THEN LOCKPICK ELSE CHEST_KEY_5 ]
  ELSE IF item_id \notin DOMAIN weapons_by_id
    THEN [ ok |-> TRUE, rng |-> rng, id |-> item_id ]
  ELSE ChosenId(Choice(WeaponChoices(job, weapons_by_id[item_id].rank, logic),
                       rng), item_id)

RECURSIVE select_new_inventory(_, _, _, _)
RECURSIVE InventoryAfter(_, _, _, _)

\* the list comprehension's result once its later elements are known
Prepend(id, rest) ==
  [ ok |-> rest.ok, rng |-> rest.rng, items |-> << id >> \o rest.items ]

\* the rest of the comprehension after its first element `first`
InventoryAfter(job, items, logic, first) ==
  IF ~first.ok THEN [ ok |-> FALSE, rng |-> first.rng, items |-> << >> ]
  ELSE Prepend(first.id, select_new_inventory(job, items, logic, first.rng))

\* FE8Randomizer.select_new_inventory: the items left to right, one draw each
select_new_inventory(job, items, logic, rng) ==
  IF items = << >> THEN [ ok |-> TRUE, rng |-> rng, items |-> << >> ]
  ELSE InventoryAfter(job, Tail(items), logic,
                      select_new_item(job, Head(items), logic, rng))

RECURSIVE WriteBytes(_, _, _)
\* rom[offset + i] = bytes[i] for every i
WriteBytes(rom, offset, bytes) ==
  IF bytes = << >> THEN rom
  ELSE WriteBytes([rom EXCEPT ![offset] = Head(bytes)], offset + 1, Tail(bytes))

\* the backfill storing the weapon's rank whatever the byte held
BackfillRankOverwrite(rom, char, weapon) ==
  [rom EXCEPT ![CHARACTER_TABLE_BASE + char * CHARACTER_SIZE
                + CHARACTER_WRANK_OFFSET + weapon.kind] = weapon.rank]

\* rom[boss_wrank_offs] = max(rank, weapon.rank) for one weapon
BackfillRank(rom, char, weapon) ==
  [rom EXCEPT ![CHARACTER_TABLE_BASE + char * CHARACTER_SIZE
                + CHARACTER_WRANK_OFFSET + weapon.kind] = Max(@, weapon.rank)]

RECURSIVE BackfillRanks(_, _, _)
\* the boss weapon-rank loop over new_inventory
BackfillRanks(rom, char, items) ==
  IF items = << >> THEN rom
  ELSE IF Head(items) \notin DOMAIN weapons_by_id
    THEN BackfillRanks(rom, char, Tail(items))
  ELSE BackfillRanks(BackfillRank(rom, char, weapons_by_id[Head(items)]), char,
                     Tail(items))

\* a job pool drawn from both promotion tiers
NewJobPoolAnyTier(job, logic, player_monster) ==
  SelectSeq(promoted_jobs \o unpromoted_jobs,
            LAMBDA j : job_valid(j, logic, player_monster))

\* the job pool a fresh draw chooses from
NewJobPool(job, logic, player_monster) ==
  SelectSeq(IF job.is_promoted THEN promoted_jobs ELSE unpromoted_jobs,
            LAMBDA j : job_valid(j, logic, player_monster))

\* the result of one randomize_chapter_unit call
UnitResult(outcome, rom, character_jobs, rng, logic) ==
  [ outcome |-> outcome, rom |-> rom, character_jobs |-> character_jobs,
    rng |-> rng, logic |-> logic ]

\* unit[INVENTORY_INDEX : INVENTORY_INDEX + INVENTORY_SIZE]
Inventory(rom, data_offset) ==
  [ i \in 1..INVENTORY_SIZE |-> rom[data_offset + INVENTORY_INDEX + i - 1] ]

\* the "ai1_mod" substitution
ApplyAi1Mod(rom, data_offset, ai1_mod) ==
  IF ai1_mod # << >> /\ rom[data_offset + AI1_INDEX] = ai1_mod[1]
    THEN [rom EXCEPT ![data_offset + AI1_INDEX] = ai1_mod[2]]
    ELSE rom

\* the boss weapon-level backfill; flags is unit[3]
BackfillBoss(rom, character_jobs, flags, char, items) ==
  IF BitAnd(flags, 6) # 0 /\ BitAnd(flags, 1) = 0 /\ Contains(character_jobs, char)
    THEN BackfillRanks(rom, char, items)
    ELSE rom

\* randomize_chapter_unit from the write of the new class on; inv is the
\* result of select_new_inventory
WriteUnit(rom, character_jobs, logic, ai1_mod, data_offset, char, new_job, outcome, inv) ==
  IF ~inv.ok THEN UnitResult("raised", rom, character_jobs, inv.rng, logic)
  ELSE UnitResult(
         outcome,
         BackfillBoss(
           ApplyAi1Mod(
             WriteBytes([rom EXCEPT ![data_offset + 1] = new_job.id],
                        data_offset + INVENTORY_INDEX, inv.items),
             data_offset, ai1_mod),
           character_jobs, rom[data_offset + 3], char, inv.items),
         character_jobs, inv.rng, logic)

\* the class is resolved to new_job: the inventory is selected for it
EquipUnit(rom, character_jobs, rng, logic, ai1_mod, data_offset, char, new_job, outcome) ==
  WriteUnit(rom, character_jobs, logic, ai1_mod, data_offset, char, new_job,
            outcome,
            select_new_inventory(new_job, Inventory(rom, data_offset), logic, rng))

\* the branch without a stored class; c is the result of random.choice
DrawJob(rom, character_jobs, logic, ai1_mod, data_offset, char, c) ==
  IF ~c.ok THEN UnitResult("raised", rom, character_jobs, c.rng, logic)
  ELSE EquipUnit(rom,
                 IF ~Has(logic, "no_store") \/ ~Truthy(logic["no_store"])
                   THEN SetItem(character_jobs, char, c.val.id)
                   ELSE character_jobs,
                 c.rng, logic, ai1_mod, data_offset, char, c.val, "fresh")

\* randomize_chapter_unit from the point where the class is resolved
AssignUnit(rom, character_jobs, rng, logic, ai1_mod, config, data_offset, job, char) ==
  IF Contains(character_jobs, char)
    THEN EquipUnit(rom, character_jobs, rng, logic, ai1_mod, data_offset, char,
                   GetItem(character_jobs, char), "reused")
    ELSE DrawJob(rom, character_jobs, logic, ai1_mod, data_offset, char,
                 Choice(NewJobPool(job, logic, config.player_monster), rng))

\* the kept-player branch storing the record's class over any stored one
RandomizeKnownOverwrite(rom, character_jobs, rng, logic, ai1_mod, config, data_offset, job, char) ==
  IF ~config.player_rando /\ Has(logic, "player") /\ Truthy(logic["player"])
    THEN UnitResult("kept", rom, SetItem(character_jobs, char, job.id), rng, logic)
    ELSE AssignUnit(rom, character_jobs, rng, logic, ai1_mod, config,
                    data_offset, job, char)

\* randomize_chapter_unit after the character's tags are merged into logic
RandomizeKnown(rom, character_jobs, rng, logic, ai1_mod, config, data_offset, job, char) ==
  IF ~config.player_rando /\ Has(logic, "player") /\ Truthy(logic["player"])
    THEN UnitResult("kept", rom,
                    IF ~Contains(character_jobs, char)
                      THEN SetItem(character_jobs, char, job.id)
                      ELSE character_jobs,
                    rng, logic)
    ELSE AssignUnit(rom, character_jobs, rng, logic, ai1_mod, config,
                    data_offset, job, char)

\* randomize_chapter_unit without the check for job id 101
randomize_chapter_unit_no_denylist(rom, character_jobs, rng, logic, ai1_mod, config, hashseed, data_offset) ==
  IF rom[data_offset + 1] \notin DOMAIN jobs_by_id
    THEN UnitResult("foreign", rom, character_jobs, rng, logic)
  ELSE RandomizeKnown(rom, character_jobs, rng,
                      MergeCharTags(logic, tags(rom[data_offset]), hashseed),
                      ai1_mod, config, data_offset,
                      jobs_by_id[rom[data_offset + 1]], rom[data_offset])

\* FE8Randomizer.randomize_chapter_unit(data_offset, logic)
randomize_chapter_unit(rom, character_jobs, rng, logic, ai1_mod, config, hashseed, data_offset) ==
  IF rom[data_offset + 1] \notin DOMAIN jobs_by_id
    THEN UnitResult("foreign", rom, character_jobs, rng, logic)
  ELSE IF rom[data_offset + 1] = DRACOZOMBIE_JOB_ID
    THEN UnitResult("foreign", rom, character_jobs, rng, logic)
  ELSE RandomizeKnown(rom, character_jobs, rng,
                      MergeCharTags(logic, tags(rom[data_offset]), hashseed),
                      ai1_mod, config, data_offset,
                      jobs_by_id[rom[data_offset + 1]], rom[data_offset])

(***************************************************************************)
(* Group-rule expansion: the first loop of randomize_block.                *)
(***************************************************************************)
\* block.logic[i][k] = True for every affected i (the older revision's body)
MarkAffectedTrue(logic, affected, k, v) ==
  [ i \in DOMAIN logic |->
      IF i \in affected THEN [logic[i] EXCEPT ![k] = PyTrue] ELSE logic[i] ]

\* for i in affected: block.logic[i][k] = v
MarkAffected(logic, affected, k, v) ==
  [ i \in DOMAIN logic |->
      IF i \in affected THEN [logic[i] EXCEPT ![k] = v] ELSE logic[i] ]

\* the indices one group rule (k, v) affects, and the generator afterwards
Affected(count, v, rng) ==
  IF v[1] = "at_least"
    THEN LET s == Sample(count, v[2], rng)
         IN [ ok |-> s.ok, affected |-> Range(s.picked), rng |-> s.rng ]
    ELSE [ ok |-> TRUE, affected |-> 0..(count - 1), rng |-> rng ]

RECURSIVE ExpandRules(_, _, _, _)
\* the loop over the block's string-keyed rules, in dict order
ExpandRules(logic, rules, count, rng) ==
  IF rules = << >> THEN [ ok |-> TRUE, logic |-> logic, rng |-> rng ]
  ELSE LET k == Head(rules)[1]
           v == Head(rules)[2]
           a == Affected(count, v, rng)
       IN IF ~a.ok THEN [ ok |-> FALSE, logic |-> logic, rng |-> rng ]
          ELSE ExpandRules(MarkAffected(logic, a.affected, k, v), Tail(rules),
                           count, a.rng)

(***************************************************************************)
(* Post passes.                                                            *)
(***************************************************************************)
\* Imported by fe8py.py from constants.py, which does not define them: the
\* job-table ability byte, its mounted/canto bits, the monster job entries
\* and the two scripted Ch15 item slots.
JOB_ABILITY_1_INDEX == 40
MOUNTED_AID_CANTO_MASK == 3
MOUNTED_MONSTERS == << 89, 82 >>
CH15_AUTO_STEEL_SWORD == 10425000
CH15_AUTO_STEEL_LANCE == 10425004

\* the table cells fix_movement_costs looks at
ImportantCells ==
  { MOVEMENT_COST_TABLE_BASE + i * MOVEMENT_COST_ENTRY_SIZE + IMPORTANT_TERRAIN_TYPES[t] :
      i \in 0..(MOVEMENT_COST_ENTRY_COUNT - 1), t \in DOMAIN IMPORTANT_TERRAIN_TYPES }

\* every cell of the movement-cost table
MovementCells ==
  { MOVEMENT_COST_TABLE_BASE + i * MOVEMENT_COST_ENTRY_SIZE + t :
      i \in 0..(MOVEMENT_COST_ENTRY_COUNT - 1),
      t \in 0..(MOVEMENT_COST_ENTRY_SIZE - 1) }

\* a fix-up that rewrites the impassable cells of every terrain type
fix_movement_costs_all_terrain(rom) ==
  [ a \in DOMAIN rom |->
      IF a \in MovementCells /\ rom[a] = IMPASSABLE
        THEN MOVEMENT_COST_SENTINEL ELSE rom[a] ]

\* FE8Randomizer.fix_movement_costs
fix_movement_costs(rom) ==
  [ a \in DOMAIN rom |->
      IF a \in ImportantCells /\ rom[a] = IMPASSABLE
        THEN MOVEMENT_COST_SENTINEL ELSE rom[a] ]

\* a scripted item drawn from every usable weapon, whatever the rank
CutsceneItemAnyRank(job, name, rng) ==
  select_new_item_any_rank(job, weapons_by_name[name].id, EmptyLogic, rng)

\* one scripted item resolved against a stored class, with logic {}
CutsceneItem(job, name, rng) ==
  select_new_item(job, weapons_by_name[name].id, EmptyLogic, rng)

\* the item that replaces Eirika's scripted Rapier
NewRapier(eirika_job, rng) ==
  IF \E wkind \in eirika_job.usable_weapons : wkind # STAFF
    THEN CutsceneItem(eirika_job, "Steel Blade", rng)
    ELSE ChosenId(Choice(<< weapons_by_name["Heal"], weapons_by_name["Mend"],
                            weapons_by_name["Recover"] >>, rng), 0)

CutscenesFailed(rom, rng) == [ ok |-> FALSE, rom |-> rom, rng |-> rng ]

\* the two Ch15 writes, once both items are selected
WriteSteels(rom, sword, lance) ==
  IF ~lance.ok THEN CutscenesFailed(rom, lance.rng)
  ELSE [ ok |-> TRUE, rng |-> lance.rng,
         rom |-> [rom EXCEPT ![CH15_AUTO_STEEL_SWORD] = sword.id,
                             ![CH15_AUTO_STEEL_LANCE] = lance.id] ]

\* ephraim_job = self.character_store["Ephraim"] and his steel lance
FixSteelLance(rom, character_jobs, sword) ==
  IF ~sword.ok THEN CutscenesFailed(rom, sword.rng)
  ELSE IF "Ephraim" \notin DOMAIN character_jobs
    THEN CutscenesFailed(rom, sword.rng)
  ELSE WriteSteels(rom, sword,
                   CutsceneItem(jobs_by_id[character_jobs["Ephraim"]],
                                "Steel Lance", sword.rng))

\* the writes of the Rapier's replacement and of Ross's HP, then the sword
FixSteelSword(rom, character_jobs, eirika_job, rapier) ==
  IF ~rapier.ok THEN CutscenesFailed(rom, rapier.rng)
  ELSE FixSteelLance([rom EXCEPT ![EIRIKA_RAPIER_OFFSET] = rapier.id,
                                 ![ROSS_CH2_HP_OFFSET] = 15],
                     character_jobs,
                     CutsceneItem(eirika_job, "Steel Sword", rapier.rng))

\* FE8Randomizer.fix_cutscenes; ok = FALSE is a KeyError or IndexError
fix_cutscenes(rom, character_jobs, rng) ==
  IF "Eirika" \notin DOMAIN character_jobs THEN CutscenesFailed(rom, rng)
  ELSE FixSteelSword(rom, character_jobs, jobs_by_id[character_jobs["Eirika"]],
                     NewRapier(jobs_by_id[character_jobs["Eirika"]], rng))

RECURSIVE MoveLordStatsKeepJob(_, _, _, _, _)
\* the loop taking the amount back from the personal base it was added to,
\* so that nothing moves
MoveLordStatsKeepJob(rom, stats_base, job_stats_base, i, rng) ==
  IF i >= STATS_COUNT THEN [ ok |-> TRUE, rom |-> rom, rng |-> rng ]
  ELSE IF rom[stats_base + i] + Min(RandBelow(rng, 5), rom[job_stats_base + i]) > 255
    THEN [ ok |-> FALSE, rom |-> rom, rng |-> Advance(rng) ]
  ELSE MoveLordStatsKeepJob(rom, stats_base, job_stats_base, i + 1, Advance(rng))

RECURSIVE MoveLordStats(_, _, _, _, _)
\* the loop over the six stats of one lord; a byte above 255 is a ValueError
MoveLordStats(rom, stats_base, job_stats_base, i, rng) ==
  IF i >= STATS_COUNT THEN [ ok |-> TRUE, rom |-> rom, rng |-> rng ]
  ELSE LET roll == RandBelow(rng, 5)
           old_base == rom[job_stats_base + i]
           new_personal_base == Min(roll, old_base)
       IN IF rom[stats_base + i] + new_personal_base > 255
            THEN [ ok |-> FALSE, rom |-> rom, rng |-> Advance(rng) ]
            ELSE MoveLordStats(
                   [rom EXCEPT ![stats_base + i] = @ + new_personal_base,
                               ![job_stats_base + i] = @ - new_personal_base],
                   stats_base, job_stats_base, i + 1, Advance(rng))

\* the body of tweak_lords for one (char, job, lock_mask)
TweakLord(rom, char, job, lock_mask, rng) ==
  LET character_entry == CHARACTER_TABLE_BASE + char * CHARACTER_SIZE
      stats_base == character_entry + CHARACTER_STATS_OFFSET
      lord_entry == JOB_TABLE_BASE + job * JOB_SIZE
      job_stats_base == lord_entry + JOB_STATS_OFFSET
      moved == MoveLordStats(rom, stats_base, job_stats_base, 0, rng)
      ability_4_base == character_entry + CHAR_ABILITY_4_OFFSET
  IN IF ~moved.ok THEN moved
     ELSE [ ok |-> TRUE, rng |-> moved.rng,
            rom |-> [moved.rom EXCEPT ![ability_4_base] = BitOr(@, lock_mask)] ]

\* FE8Randomizer.tweak_lords
tweak_lords(rom, rng) ==
  LET eirika == TweakLord(rom, EIRIKA, EIRIKA_LORD, EIRIKA_LOCK, rng)
  IN IF ~eirika.ok THEN eirika
     ELSE TweakLord(eirika.rom, EPHRAIM, EPHRAIM_LORD, EPHRAIM_LOCK, eirika.rng)

RECURSIVE make_monsters_mounted_add(_, _)
\* the mask added to the ability byte instead of or-ed into it
make_monsters_mounted_add(rom, jobs) ==
  IF jobs = << >> THEN rom
  ELSE make_monsters_mounted_add(
         [rom EXCEPT ![JOB_TABLE_BASE + Head(jobs) * JOB_SIZE + JOB_ABILITY_1_INDEX] = @ + MOUNTED_AID_CANTO_MASK],
         Tail(jobs))

RECURSIVE make_monsters_mounted_from(_, _)
make_monsters_mounted_from(rom, jobs) ==
  IF jobs = << >> THEN rom
  ELSE LET entry == JOB_TABLE_BASE + Head(jobs) * JOB_SIZE
       IN make_monsters_mounted_from(
            [rom EXCEPT ![entry + JOB_ABILITY_1_INDEX] = BitOr(@, MOUNTED_AID_CANTO_MASK)],
            Tail(jobs))

\* FE8Randomizer.make_monsters_mounted
make_monsters_mounted(rom) == make_monsters_mounted_from(rom, MOUNTED_MONSTERS)

(***************************************************************************)
(* The pass as a state machine.                                            *)
(*   rom, logic, character_jobs, random : the randomizer's mutable state   *)
(*   pc       : position of apply_base_changes                             *)
(*   outcome  : per spawn record, what the record loop did with it         *)
(*   input    : the constructor's arguments, kept for reference            *)
(*   hashseed : the process's string hash seed (set iteration order)       *)
(*   run, first : a second, independent run and the result of the first    *)
(*   patch    : the emitted output (image, tokens) and the replayed buffer *)
(*   ctx      : the client's GBAContext                                   *)
(*   tasks    : the handle_read_data tasks started by the client, in order *)
(***************************************************************************)
VARIABLES rom, logic, character_jobs, random, pc, outcome, input, hashseed,
          run, first, patch, ctx, tasks

vars == << rom, logic, character_jobs, random, pc, outcome, input, hashseed,
           run, first, patch, ctx, tasks >>

\* no client context: the generation passes run without one
NoCtx == [ gba_status |-> "none" ]

\* the number of seeds the constructor's Random is started from
MaxSeed == 4

\* chapter_unit_blocks.json: two chapters of one block of two records
unit_blocks ==
  << [ chapter |-> "Prologue", name |-> "PrologueUnits", base |-> 9124884,
       count |-> 2 ],
     [ chapter |-> "Ch1", name |-> "Ch1Units", base |-> 9125884, count |-> 2 ] >>

\* the scripted-movement (REDA) array every record's pointer field names
reda_array == [ offs |-> 9130000, count |-> 2 ]

Blocks == DOMAIN unit_blocks

\* spawn records in pass order: <<block, index>>
Recs == UNION { { << b, i >> : i \in 0..(unit_blocks[b].count - 1) } : b \in Blocks }

\* offset = block.base + i * CHAPTER_UNIT_SIZE
RecOffset(r) == unit_blocks[r[1]].base + r[2] * CHAPTER_UNIT_SIZE

\* r1 is visited before r2
Before(r1, r2) == r1[1] < r2[1] \/ (r1[1] = r2[1] /\ r1[2] < r2[2])

With(l, k, v) == [l EXCEPT ![k] = v]

Nudges(start, r0, r1) ==
  [ k \in (IF start # << >> THEN {"start"} ELSE {})
          \cup (IF r0 # << >> THEN {"0"} ELSE {})
          \cup (IF r1 # << >> THEN {"1"} ELSE {}) |->
      IF k = "start" THEN start ELSE IF k = "0" THEN r0 ELSE r1 ]

Scene(char, job, flags, coords, reda_count, inv, ai1, lg, nudges, ai1_mod) ==
  [ char |-> char, job |-> job, flags |-> flags, coords |-> coords,
    reda_count |-> reda_count, inv |-> inv, ai1 |-> ai1, logic |-> lg,
    nudges |-> nudges, ai1_mod |-> ai1_mod ]

\* the spawn records (bytes and per-index logic) an image is assembled from
Scenes ==
  << \* 1: Eirika, a player unit in her lord class
     Scene(1, 2, 0, 4234, 0, << 9, 108, 0, 0 >>, 0,
           With(EmptyLogic, "player", PyTrue), NoNudges, << >>),
     \* 2: Ephraim, a player unit in his lord class
     Scene(15, 1, 0, 130, 0, << 20, 0, 0, 0 >>, 0,
           With(EmptyLogic, "player", PyTrue), NoNudges, << >>),
     \* 3: Orson as a promoted player unit
     Scene(66, 7, 0, 515, 0, << 4, 22, 0, 0 >>, 0,
           With(EmptyLogic, "player", PyTrue), NoNudges, << >>),
     \* 4: Orson's enemy alias, a boss with an AI substitution
     Scene(109, 7, 4, 8, 0, << 3, 0, 0, 0 >>, 0, EmptyLogic, NoNudges,
           << 0, 3 >>),
     \* 5: Orson's enemy alias under must_fly
     Scene(109, 7, 4, 9, 0, << 1, 0, 0, 0 >>, 6,
           With(EmptyLogic, "must_fly", PyTrue), NoNudges, << 0, 3 >>),
     \* 6: an autoleveled enemy carrying a C-rank blade and a lockpick
     Scene(200, 5, 5, 61450, 0, << 6, 107, 0, 0 >>, 0, EmptyLogic, NoNudges,
           << >>),
     \* 7: an NPC whose class is not in the catalog, with nudges
     Scene(200, 60, 2, 36874, 1, << 1, 0, 0, 0 >>, 0, EmptyLogic,
           Nudges(<< 3, 5 >>, << 7, 9 >>, << >>), << >>),
     \* 8: an existing Dracozombie
     Scene(200, 101, 5, 77, 0, << 171, 0, 0, 0 >>, 0, EmptyLogic, NoNudges,
           << >>),
     \* 9: Eirika in a record that must not be stored, with a nudged start
     Scene(1, 5, 0, 66, 0, << 1, 0, 0, 0 >>, 0,
           With(With(EmptyLogic, "player", PyTrue), "no_store", PyTrue),
           Nudges(<< 5, 4 >>, << >>, << >>), << >>),
     \* 10: Eirika in an ignored record, with nudges
     Scene(1, 5, 0, 45057, 2, << 1, 0, 0, 0 >>, 0,
           With(EmptyLogic, "ignore", PyTrue),
           Nudges(<< 63, 63 >>, << >>, << 0, 2 >>), << >>),
     \* 11: Eirika as a boss under must_fly
     Scene(1, 5, 4, 200, 0, << 1, 3, 0, 0 >>, 0,
           With(EmptyLogic, "must_fly", PyTrue), NoNudges, << >>),
     \* 12: a boss pegasus knight with a staff, no_fly and must_fight: false
     Scene(200, 72, 4, 300, 0, << 20, 75, 0, 0 >>, 0,
           With(With(EmptyLogic, "no_fly", PyTrue), "must_fight", PyFalse),
           NoNudges, << >>) >>

SceneIds == DOMAIN Scenes

\* the 20 bytes of a spawn record
UnitBytes(sc) ==
  LET redas_addr == ROM_BASE_ADDRESS + reda_array.offs
  IN << sc.char, sc.job, 0, sc.flags, sc.coords % 256, sc.coords \div 256, 0,
        sc.reda_count, redas_addr % 256, (redas_addr \div 256) % 256,
        (redas_addr \div 65536) % 256, redas_addr \div 16777216 >>
     \o sc.inv \o << sc.ai1, 0, 0, 0 >>

\* the character ids and job ids whose table entries the image holds
TableChars == { 1, 15, 66, 109, 200 }
TableJobs == { 1, 2, 82, 89 }

\* the rows and terrain columns of the movement-cost table the image holds
TableRows == { 0, 1, 48 }
TableTerrain == { 0, 14, 15, 26, 62, 64 }

UnitAddrs == UNION { RecOffset(r)..(RecOffset(r) + CHAPTER_UNIT_SIZE - 1) : r \in Recs }
RedaAddrs == reda_array.offs..(reda_array.offs + 8 * reda_array.count - 1)
\* the bytes of a character entry and of a job entry the image holds: the
\* stats, the weapon ranks by kind, the ability bytes and their neighbours
CharFields == 10..44
JobFields == (10..17) \cup { 39, 40, 41 }

CharAddrs ==
  { CHARACTER_TABLE_BASE + c * CHARACTER_SIZE + f : c \in TableChars, f \in CharFields }
JobAddrs == { JOB_TABLE_BASE + j * JOB_SIZE + f : j \in TableJobs, f \in JobFields }
MoveAddrs ==
  { MOVEMENT_COST_TABLE_BASE + i * MOVEMENT_COST_ENTRY_SIZE + t :
      i \in TableRows, t \in TableTerrain }
ScriptAddrs ==
  { EIRIKA_RAPIER_OFFSET, ROSS_CH2_HP_OFFSET, CH15_AUTO_STEEL_SWORD,
    CH15_AUTO_STEEL_LANCE }

\* the offsets of the image the pass works on
PassAddrs == UnitAddrs \cup RedaAddrs \cup CharAddrs \cup JobAddrs \cup MoveAddrs
             \cup ScriptAddrs

\* the base image outside the spawn records
TableByte(a) ==
  IF a \in MoveAddrs THEN (IF a % 2 = 0 THEN IMPASSABLE ELSE a % 7)
  ELSE IF a \in RedaAddrs THEN (a * 37) % 256
  ELSE IF a = CHARACTER_TABLE_BASE + 109 * CHARACTER_SIZE + CHARACTER_WRANK_OFFSET + SWORD
    THEN 200
  ELSE IF a = CHARACTER_TABLE_BASE + EIRIKA * CHARACTER_SIZE + CHARACTER_WRANK_OFFSET + MONSTER_WEAPON
    THEN 0
  ELSE IF a \in JobAddrs THEN (a * 5) % 19
  ELSE IF a \in CharAddrs THEN (a * 3) % 11
  ELSE 1

\* the base image for an assignment of scenes to spawn records
BaseImage(sc) ==
  [ a \in PassAddrs |->
      IF a \in UnitAddrs
        THEN LET r == CHOOSE q \in Recs : a - RecOffset(q) \in 0..(CHAPTER_UNIT_SIZE - 1)
             IN UnitBytes(Scenes[sc[r]])[a - RecOffset(r) + 1]
        ELSE TableByte(a) ]

\* the string-keyed group rules of the two blocks, in dict order
RuleSets ==
  << << << >>, << >> >>,
     << << << "must_fight", AtLeast(1) >> >>, << << "must_fly", PyTrue >> >> >>,
     << << << "no_store", AtLeast(2) >>, << "must_fight", PyFalse >> >>, << >> >>,
     << << << "must_fly", AtLeast(3) >> >>, << >> >> >>

\* config: (player_rando, player_monster)
Configs ==
  { [ player_rando |-> TRUE, player_monster |-> TRUE ],
    [ player_rando |-> TRUE, player_monster |-> FALSE ],
    [ player_rando |-> FALSE, player_monster |-> TRUE ] }

\* scene assignments: the first block varies and the lords follow, the lords
\* lead and the second block varies
SceneChoices ==
  { [ r \in Recs |-> IF r = << 1, 0 >> THEN s1 ELSE IF r = << 1, 1 >> THEN s2
                     ELSE IF r = << 2, 0 >> THEN 1 ELSE 2 ] :
      s1 \in SceneIds, s2 \in SceneIds }
  \cup
  { [ r \in Recs |-> IF r = << 1, 0 >> THEN 1 ELSE IF r = << 1, 1 >> THEN 2
                     ELSE IF r = << 2, 0 >> THEN s1 ELSE s2 ] :
      s1 \in SceneIds, s2 \in SceneIds }

\* scene assignments run twice, under both hash seeds
RerunChoices ==
  { [ r \in Recs |-> IF r = << 1, 0 >> THEN s1 ELSE IF r = << 1, 1 >> THEN 2
                     ELSE IF r = << 2, 0 >> THEN s2 ELSE 1 ] :
      s1 \in { 1, 3, 4, 6 }, s2 \in { 3, 4, 5, 11 } }

Inputs ==
  { [ scenes |-> sc, rules |-> RuleSets[g], config |-> c, seed |-> seed,
      rerun |-> FALSE ] :
      sc \in SceneChoices, g \in 1..3, c \in Configs, seed \in 0..MaxSeed }
  \cup
  { [ scenes |-> sc, rules |-> RuleSets[4], config |-> c, seed |-> seed,
      rerun |-> FALSE ] :
      sc \in RerunChoices, c \in Configs, seed \in 0..MaxSeed }
  \cup
  { [ scenes |-> sc, rules |-> RuleSets[g], config |-> c, seed |-> seed,
      rerun |-> TRUE ] :
      sc \in RerunChoices, g \in 1..2, c \in Configs, seed \in 0..MaxSeed }

\* block.logic[i] for every record, as loaded
InitialLogic(inp) ==
  [ b \in Blocks |-> [ i \in 0..(unit_blocks[b].count - 1) |->
      Scenes[inp.scenes[<< b, i >>]].logic ] ]

StartPc == [ phase |-> "expand", b |-> 1, i |-> 0 ]

NoFirst ==
  [ phase |-> "none", rom |-> << >>, character_jobs |-> EmptyStore, hashseed |-> 0 ]

\* nothing emitted yet
NoPatch == [ emitted |-> << >>, tokens |-> << >>, replayed |-> << >> ]

\* the state a run of apply_base_changes starts from
Start(inp) ==
  /\ rom = BaseImage(inp.scenes)
  /\ logic = InitialLogic(inp)
  /\ character_jobs = EmptyStore
  /\ random = inp.seed
  /\ pc = StartPc
  /\ outcome = [ r \in Recs |-> "pending" ]

Init ==
  \E inp \in Inputs, h \in { 0, 1 } :
    /\ input = inp
    /\ hashseed = h
    /\ (~inp.rerun => h = 0)
    /\ run = 1
    /\ first = NoFirst
    /\ patch = NoPatch
    /\ ctx = NoCtx
    /\ tasks = << >>
    /\ Start(inp)

(***************************************************************************)
(* apply_base_changes, one step per loop iteration or post pass.           *)
(***************************************************************************)
\* where the pass goes after record i of block b
AfterRecord(b, i) ==
  IF i + 1 < unit_blocks[b].count THEN [ phase |-> "unit", b |-> b, i |-> i + 1 ]
  ELSE IF b < Len(unit_blocks) THEN [ phase |-> "expand", b |-> b + 1, i |-> 0 ]
  ELSE [ phase |-> "fix_movement_costs", b |-> 0, i |-> 0 ]

Raised == [ phase |-> "raised", b |-> 0, i |-> 0 ]

\* randomize_block, first loop: the group rules of block pc.b are expanded;
\* a ValueError of random.sample is logged by apply_base_changes and re-raised
ExpandGroupRules ==
  /\ pc.phase = "expand"
  /\ \E e \in { ExpandRules(logic[pc.b], input.rules[pc.b],
                               unit_blocks[pc.b].count, random) } :
       IF e.ok
         THEN /\ logic' = [logic EXCEPT ![pc.b] = e.logic]
              /\ random' = e.rng
              /\ pc' = [ phase |-> "unit", b |-> pc.b, i |-> 0 ]
         ELSE /\ pc' = Raised
              /\ UNCHANGED << logic, random >>
  /\ UNCHANGED << rom, character_jobs, outcome, input, ctx, tasks, hashseed, run, first, patch >>

\* the iteration with the ignore check ahead of the nudges, so that an
\* ignored record is left without them
RecordStepIgnoreFirst(b, i) ==
  LET offset == unit_blocks[b].base + i * CHAPTER_UNIT_SIZE
      sc == Scenes[input.scenes[<< b, i >>]]
      lg == logic[b][i]
  IN IF Has(lg, "ignore") /\ Truthy(lg["ignore"])
       THEN UnitResult("ignored", rom, character_jobs, random, lg)
       ELSE randomize_chapter_unit(
              IF sc.nudges # NoNudges THEN apply_nudges(rom, offset, sc.nudges) ELSE rom,
              character_jobs, random, lg, sc.ai1_mod, input.config, hashseed, offset)

\* one iteration of randomize_block's second loop, on record i of block b:
\* nudges, the ignore check, then randomize_chapter_unit
RecordStep(b, i) ==
  LET offset == unit_blocks[b].base + i * CHAPTER_UNIT_SIZE
      sc == Scenes[input.scenes[<< b, i >>]]
      lg == logic[b][i]
      rom1 == IF sc.nudges # NoNudges THEN apply_nudges(rom, offset, sc.nudges)
              ELSE rom
  IN IF Has(lg, "ignore") /\ Truthy(lg["ignore"])
       THEN UnitResult("ignored", rom1, character_jobs, random, lg)
       ELSE randomize_chapter_unit(rom1, character_jobs, random, lg, sc.ai1_mod,
                                   input.config, hashseed, offset)

\* the iteration's effects, for the outcomes in `outcomes`
Iterate(outcomes) ==
  /\ \E res \in { RecordStep(pc.b, pc.i) } :
        /\ res.outcome \in outcomes
        /\ rom' = res.rom
        /\ logic' = [logic EXCEPT ![pc.b][pc.i] = res.logic]
        /\ character_jobs' = res.character_jobs
        /\ random' = res.rng
        /\ outcome' = [outcome EXCEPT ![<< pc.b, pc.i >>] = res.outcome]
        /\ pc' = IF res.outcome = "raised" THEN Raised ELSE AfterRecord(pc.b, pc.i)
  /\ UNCHANGED << input, ctx, tasks, hashseed, run, first, patch >>

\* the record is flagged ignore: `continue` after the nudges
SkipIgnored ==
  /\ pc.phase = "unit"
  /\ Iterate({"ignored"})

\* the job id is not in jobs_by_id, or is 101: randomize_chapter_unit returns
SkipForeign ==
  /\ pc.phase = "unit"
  /\ Iterate({"foreign"})

\* player_rando is off and the record is a player's: the original class is
\* stored and the record is left alone
KeepPlayerUnit ==
  /\ pc.phase = "unit"
  /\ Iterate({"kept"})

\* the character has no stored class: one is drawn, then the inventory
AssignFresh ==
  /\ pc.phase = "unit"
  /\ Iterate({"fresh"})

\* the character's stored class is reused, then the inventory is drawn
ReuseStored ==
  /\ pc.phase = "unit"
  /\ Iterate({"reused"})

\* random.choice on an empty list: IndexError, logged and re-raised
RaiseLogicError ==
  /\ pc.phase = "unit"
  /\ Iterate({"raised"})

\* self.fix_movement_costs()
FixMovementCosts ==
  /\ pc.phase = "fix_movement_costs"
  /\ rom' = fix_movement_costs(rom)
  /\ pc' = [pc EXCEPT !.phase = "fix_cutscenes"]
  /\ UNCHANGED << logic, character_jobs, random, outcome, input, ctx, tasks, hashseed, run,
                  first, patch >>

\* self.fix_cutscenes(); a KeyError or IndexError leaves apply_base_changes
FixCutscenes ==
  /\ pc.phase = "fix_cutscenes"
  /\ \E res \in { fix_cutscenes(rom, character_jobs, random) } :
        /\ rom' = res.rom
        /\ random' = res.rng
        /\ pc' = IF res.ok THEN [pc EXCEPT !.phase = "tweak_lords"] ELSE Raised
  /\ UNCHANGED << logic, character_jobs, outcome, input, ctx, tasks, hashseed, run, first, patch >>

\* self.tweak_lords()
TweakLords ==
  /\ pc.phase = "tweak_lords"
  /\ \E res \in { tweak_lords(rom, random) } :
        /\ rom' = res.rom
        /\ random' = res.rng
        /\ pc' = IF res.ok THEN [pc EXCEPT !.phase = "make_monsters_mounted"]
                 ELSE Raised
  /\ UNCHANGED << logic, character_jobs, outcome, input, ctx, tasks, hashseed, run, first, patch >>

\* self.make_monsters_mounted()
MakeMonstersMounted ==
  /\ pc.phase = "make_monsters_mounted"
  /\ rom' = make_monsters_mounted(rom)
  /\ pc' = [pc EXCEPT !.phase = "done"]
  /\ UNCHANGED << logic, character_jobs, random, outcome, input, ctx, tasks, hashseed, run,
                  first, patch >>

Finished == pc.phase \in { "done", "raised" }

\* a second, independent run on the same inputs: a new process (its own
\* string hash seed), a new randomizer on a fresh copy of the base image and
\* a new Random(seed)
RunAgain ==
  /\ input.rerun
  /\ run = 1
  /\ Finished
  /\ first' = [ phase |-> pc.phase, rom |-> rom, character_jobs |-> character_jobs,
                hashseed |-> hashseed ]
  /\ run' = 2
  /\ hashseed' \in { 0, 1 }
  /\ rom' = BaseImage(input.scenes)
  /\ logic' = InitialLogic(input)
  /\ character_jobs' = EmptyStore
  /\ random' = input.seed
  /\ pc' = StartPc
  /\ outcome' = [ r \in Recs |-> "pending" ]
  /\ UNCHANGED << input, ctx, tasks, patch >>

Next ==
  \/ ExpandGroupRules
  \/ SkipIgnored
  \/ SkipForeign
  \/ KeepPlayerUnit
  \/ AssignFresh
  \/ ReuseStored
  \/ RaiseLogicError
  \/ FixMovementCosts
  \/ FixCutscenes
  \/ TweakLords
  \/ MakeMonstersMounted
  \/ RunAgain

Spec == Init /\ [][Next]_vars

(***************************************************************************)
(* Properties of the unit pass.                                            *)
(***************************************************************************)
RecScene(r) == Scenes[input.scenes[r]]
RecChar(r) == RecScene(r).char
RecLogic(r) == logic[r[1]][r[2]]
JobByte(r) == rom[RecOffset(r) + 1]
Mutated(r) == outcome[r] \in { "fresh", "reused" }
FlagSet(lg, k) == Has(lg, k) /\ Truthy(lg[k])

\* r1 and r2 are records of one canonical character
SameCharacter(r1, r2) ==
  /\ lookup_name(RecChar(r1)) # "None"
  /\ lookup_name(RecChar(r1)) = lookup_name(RecChar(r2))

\* r is the first record of its character in pass order
FirstOfCharacter(r) == \A q \in Recs : Before(q, r) => ~SameCharacter(q, r)

\* r wrote its class to the continuity store
Stores(r) ==
  \/ outcome[r] = "kept"
  \/ outcome[r] = "fresh" /\ ~FlagSet(RecLogic(r), "no_store")

\* C1: two independent runs on the same base image, catalogs, toggles and
\* seed end the same way, with byte-identical buffers and identical stores,
\* whatever the string hash seed of each process.
TwoRunsAgree ==
  (run = 2 /\ Finished) =>
    /\ pc.phase = first.phase
    /\ rom = first.rom
    /\ character_jobs = first.character_jobs

\* Both runs completed under different hash seeds, with a tagged character
\* (Orson) randomized and the lords' stats moved.
TwoRunsAgreeWitness ==
  /\ run = 2
  /\ pc.phase = "done"
  /\ hashseed # first.hashseed
  /\ \E r \in Recs : Mutated(r) /\ RecChar(r) \in { 66, 109 } /\ JobByte(r) # RecScene(r).job
  /\ rom # BaseImage(input.scenes)

\* C2 (as amended): if the first record of a character stores its
\* assignment, every later record of that character that the unit pass
\* mutates has the stored class id in its job byte, the same id as the first
\* record's.
ContinuityOfMutatedRecords ==
  \A r1 \in Recs : \A r2 \in Recs :
    ( /\ Before(r1, r2)
      /\ SameCharacter(r1, r2)
      /\ FirstOfCharacter(r1)
      /\ Stores(r1)
      /\ Mutated(r2) ) =>
        /\ JobByte(r2) = character_jobs[lookup_name(RecChar(r2))]
        /\ JobByte(r2) = JobByte(r1)

\* A later record under another alias id reuses the class drawn for the first.
ContinuityWitness ==
  \E r1 \in Recs : \E r2 \in Recs :
    /\ Before(r1, r2)
    /\ FirstOfCharacter(r1)
    /\ RecChar(r1) = 66
    /\ RecChar(r2) = 109
    /\ outcome[r1] = "fresh"
    /\ outcome[r2] = "reused"
    /\ JobByte(r1) # RecScene(r1).job
    /\ JobByte(r2) = JobByte(r1)

\* C2 as stated: every later record of the character ends the pass with the
\* first record's class id in its job byte.
ContinuityOfAllRecords ==
  pc.phase = "done" =>
    \A r1 \in Recs : \A r2 \in Recs :
      ( /\ Before(r1, r2)
        /\ SameCharacter(r1, r2)
        /\ FirstOfCharacter(r1)
        /\ Stores(r1) ) => JobByte(r2) = JobByte(r1)

\* the items a mutated record's slots held and hold
OriginalItem(r, slot) == RecScene(r).inv[slot]
NewItem(r, slot) == rom[RecOffset(r) + INVENTORY_INDEX + slot - 1]
Slots == 1..INVENTORY_SIZE

\* C3: the class written to a mutated record satisfies job_valid against the
\* record's accumulated logic, and every weapon drawn for it satisfies
\* weapon_usable against that class and logic.
EligibilityOfMutatedRecords ==
  \A r \in Recs : Mutated(r) =>
    /\ JobByte(r) \in DOMAIN jobs_by_id
    /\ job_valid(jobs_by_id[JobByte(r)], RecLogic(r), input.config.player_monster)
    /\ \A slot \in Slots :
         OriginalItem(r, slot) \in DOMAIN weapons_by_id =>
           /\ NewItem(r, slot) \in DOMAIN weapons_by_id
           /\ weapon_usable(weapons_by_id[NewItem(r, slot)],
                            jobs_by_id[JobByte(r)], RecLogic(r))

\* the ids in the bucket select_new_item draws from for an original item
BucketIds(item_id) ==
  { w.id : w \in Range(weapons_by_rank(weapons_by_id[item_id].rank)) }

\* C4 (as amended): the replacement of a catalog weapon in a mutated record
\* is a catalog weapon of the original's rank bucket: its rank is the
\* original's, or it is one of that bucket's injected fallbacks.
ReplacementFromRankBucket ==
  \A r \in Recs : Mutated(r) =>
    \A slot \in Slots :
      OriginalItem(r, slot) \in DOMAIN weapons_by_id =>
        /\ NewItem(r, slot) \in DOMAIN weapons_by_id
        /\ NewItem(r, slot) \in BucketIds(OriginalItem(r, slot))

\* An E-rank weapon was replaced by the injected Flux, whose rank is D.
ReplacementWitness ==
  \E r \in Recs : \E slot \in Slots :
    /\ Mutated(r)
    /\ OriginalItem(r, slot) \in DOMAIN weapons_by_id
    /\ weapons_by_id[OriginalItem(r, slot)].rank = RANK_E
    /\ NewItem(r, slot) = weapons_by_name["Flux"].id

\* C4 as stated: the replacement's catalog rank equals the original's.
ReplacementKeepsRank ==
  \A r \in Recs : Mutated(r) =>
    \A slot \in Slots :
      OriginalItem(r, slot) \in DOMAIN weapons_by_id =>
        /\ NewItem(r, slot) \in DOMAIN weapons_by_id
        /\ weapons_by_id[NewItem(r, slot)].rank
             = weapons_by_id[OriginalItem(r, slot)].rank

\* C5: a mutated record whose accumulated logic has must_fly true holds a job
\* with the flying tag.
MustFlyAssignsFlyingJob ==
  \A r \in Recs :
    (Mutated(r) /\ FlagSet(RecLogic(r), "must_fly")) =>
      /\ JobByte(r) \in DOMAIN jobs_by_id
      /\ "flying" \in jobs_by_id[JobByte(r)].tags

(***************************************************************************)
(* Properties of randomize_block.                                          *)
(***************************************************************************)
RECURSIVE AdvanceBy(_, _)
\* the generator's state after n draws
AdvanceBy(rng, n) == IF n = 0 THEN rng ELSE AdvanceBy(Advance(rng), n - 1)

RECURSIVE SampleDraws(_)
\* the draws random.sample makes for a block's rules
SampleDraws(rules) ==
  IF rules = << >> THEN 0
  ELSE (IF Head(rules)[2][1] = "at_least" THEN Head(rules)[2][2] ELSE 0)
       + SampleDraws(Tail(rules))

\* the rules of block pc.b have just been expanded
JustExpanded == pc.phase = "unit" /\ pc.i = 0

BlockIndices(b) == 0..(unit_blocks[b].count - 1)

\* the records of block b whose logic[k] is the value v
Marked(b, k, v) == { i \in BlockIndices(b) : logic[b][i][k] = v }

\* C6 (as amended): after randomize_block expands a group rule K with value
\* {at_least: N}, exactly N distinct records of the block have logic[K] set
\* to the rule's value {at_least: N} (a truthy value, not the boolean true)
\* and every other record has logic[K] as loaded; a plain boolean rule sets
\* logic[K] to its value on every record; the N-subset is the one
\* random.sample draws from the shared generator, which advances by N.
GroupRuleMarksRuleValue ==
  JustExpanded =>
    /\ \A j \in DOMAIN input.rules[pc.b] :
         IF input.rules[pc.b][j][2][1] = "at_least"
           THEN /\ Cardinality(Marked(pc.b, input.rules[pc.b][j][1],
                                      input.rules[pc.b][j][2]))
                     = input.rules[pc.b][j][2][2]
                /\ \A i \in BlockIndices(pc.b) :
                     i \notin Marked(pc.b, input.rules[pc.b][j][1],
                                     input.rules[pc.b][j][2])
                       => logic[pc.b][i][input.rules[pc.b][j][1]]
                            = RecScene(<< pc.b, i >>).logic[input.rules[pc.b][j][1]]
           ELSE \A i \in BlockIndices(pc.b) :
                  logic[pc.b][i][input.rules[pc.b][j][1]] = input.rules[pc.b][j][2]
    /\ (pc.b = 1 => random = AdvanceBy(input.seed, SampleDraws(input.rules[1])))
    /\ (pc.b = 1 /\ input.rules[1] # << >>
        /\ input.rules[1][1][2][1] = "at_least") =>
          Marked(1, input.rules[1][1][1], input.rules[1][1][2])
            = Range(Sample(unit_blocks[1].count, input.rules[1][1][2][2],
                           input.seed).picked)

\* An at_least: 1 rule over a block of two records marked one and left one.
GroupRuleWitness ==
  /\ JustExpanded
  /\ pc.b = 1
  /\ input.rules[1] # << >>
  /\ input.rules[1][1][2] = AtLeast(1)
  /\ Cardinality(Marked(1, input.rules[1][1][1], AtLeast(1))) = 1
  /\ random # input.seed

\* C6 as stated: exactly N distinct records have logic[K] equal to true.
GroupRuleMarksTrue ==
  JustExpanded =>
    \A j \in DOMAIN input.rules[pc.b] :
      input.rules[pc.b][j][2][1] = "at_least" =>
        Cardinality({ i \in BlockIndices(pc.b) :
                        /\ logic[pc.b][i][input.rules[pc.b][j][1]] = PyTrue
                        /\ RecScene(<< pc.b, i >>).logic[input.rules[pc.b][j][1]]
                             # PyTrue })
          = input.rules[pc.b][j][2][2]

\* the record's job id is absent from jobs_by_id or is the denylisted id
ForeignRecord(r) ==
  RecScene(r).job \notin DOMAIN jobs_by_id \/ RecScene(r).job = DRACOZOMBIE_JOB_ID

\* the coordinate bytes the record's nudges name
NudgedBytes(r) ==
  (IF "start" \in DOMAIN RecScene(r).nudges
     THEN { RecOffset(r) + COORDS_INDEX, RecOffset(r) + COORDS_INDEX + 1 }
     ELSE {})
  \cup UNION { { reda_array.offs + 8 * i, reda_array.offs + 8 * i + 1 } :
               i \in { n \in 0..(RecScene(r).reda_count - 1) :
                         IndexKey(n) \in DOMAIN RecScene(r).nudges } }

\* C10 (as amended): the loop iteration on a record whose job id is absent
\* from the catalog or is the denylisted id changes no byte of the buffer
\* except the coordinate fields named by the record's nudges (which keep
\* their high 4 bits), leaves the continuity store and the generator as they
\* were, and raises no error.
ForeignRecordsOnlyNudged ==
  [][ (pc.phase = "unit" /\ ForeignRecord(<< pc.b, pc.i >>)) =>
        /\ \A a \in DOMAIN rom :
             rom'[a] # rom[a] => a \in NudgedBytes(<< pc.b, pc.i >>)
        /\ \A a \in NudgedBytes(<< pc.b, pc.i >>) :
             a \in DOMAIN rom /\ a + 1 \in NudgedBytes(<< pc.b, pc.i >>) =>
               read_short_le(rom', a) \div 4096 = read_short_le(rom, a) \div 4096
        /\ character_jobs' = character_jobs
        /\ random' = random
        /\ pc' = AfterRecord(pc.b, pc.i) ]_vars

\* A record of a class outside the catalog was skipped after its start
\* coordinates were nudged.
ForeignRecordWitness ==
  \E r \in Recs :
    /\ outcome[r] = "foreign"
    /\ RecScene(r).job \notin DOMAIN jobs_by_id
    /\ "start" \in DOMAIN RecScene(r).nudges
    /\ read_short_le(rom, RecOffset(r) + COORDS_INDEX) # RecScene(r).coords
    /\ rom[RecOffset(r) + 1] = RecScene(r).job

\* C10 as stated: every byte of a skipped foreign record is unchanged.
ForeignRecordsUnchanged ==
  \A r \in Recs :
    (outcome[r] = "foreign" /\ ForeignRecord(r)) =>
      \A k \in 0..(CHAPTER_UNIT_SIZE - 1) :
        rom[RecOffset(r) + k] = UnitBytes(RecScene(r))[k + 1]

(***************************************************************************)
(* Properties of the continuity store and of single records.               *)
(***************************************************************************)
\* C11: the continuity store is empty when the pass starts, and within a run
\* no step of the pass (a fresh draw, the recording of a kept player unit's
\* class, a reuse, a post pass) changes or removes an entry once it is set.
StoreWriteOnce ==
  /\ [](pc = StartPc => character_jobs = EmptyStore)
  /\ [][ run' = run =>
           \A n \in DOMAIN character_jobs :
             /\ n \in DOMAIN character_jobs'
             /\ character_jobs'[n] = character_jobs[n] ]_vars

\* With player randomization off, Orson's class was recorded from his player
\* record, his enemy alias met later reused it, and the post passes ran.
StoreWriteOnceWitness ==
  /\ pc.phase = "done"
  /\ ~input.config.player_rando
  /\ \E r1 \in Recs : \E r2 \in Recs :
       /\ Before(r1, r2)
       /\ RecChar(r1) = 66
       /\ RecChar(r2) = 109
       /\ outcome[r1] = "kept"
       /\ outcome[r2] = "reused"
       /\ character_jobs["Orson"] = RecScene(r1).job
       /\ JobByte(r2) = RecScene(r1).job

\* the ids select_new_item can draw for item_id, for a class and a logic bag
UsableIds(job_id, item_id, lg) ==
  { w.id : w \in Range(WeaponChoices(jobs_by_id[job_id], weapons_by_id[item_id].rank, lg)) }

RecAddrs(r) == RecOffset(r)..(RecOffset(r) + CHAPTER_UNIT_SIZE - 1)

\* the record at r still holds the bytes of the base image
Untouched(r) ==
  \A a \in RecAddrs(r) : rom[a] = UnitBytes(RecScene(r))[a - RecOffset(r) + 1]

\* C13: a logic error is fatal and immediate. Every catalog weapon of a
\* mutated record was replaced by a weapon usable by the written class
\* under the record's logic (never a defaulted item), and once a record has
\* raised the pass has stopped: that record keeps its job byte and its
\* inventory, every later record is unprocessed and untouched, and no post
\* pass has written the job table, the movement table or the scripts.
LogicErrorFatal ==
  /\ \A r \in Recs : Mutated(r) =>
       \A k \in Slots : OriginalItem(r, k) \in DOMAIN weapons_by_id =>
         NewItem(r, k) \in UsableIds(JobByte(r), OriginalItem(r, k), RecLogic(r))
  /\ \A r \in Recs : outcome[r] = "raised" =>
       /\ pc.phase = "raised"
       /\ JobByte(r) = RecScene(r).job
       /\ \A k \in Slots : NewItem(r, k) = OriginalItem(r, k)
       /\ \A q \in Recs : Before(r, q) => (outcome[q] = "pending" /\ Untouched(q))
       /\ \A a \in MoveAddrs \cup JobAddrs \cup ScriptAddrs : rom[a] = TableByte(a)

\* A record whose character has a stored class raised because one of its
\* catalog weapons has no usable weapon of its rank for that class.
LogicErrorWitness ==
  \E r \in Recs :
    /\ outcome[r] = "raised"
    /\ Contains(character_jobs, RecChar(r))
    /\ \E q \in Recs : Before(r, q)
    /\ \E k \in Slots :
         /\ OriginalItem(r, k) \in DOMAIN weapons_by_id
         /\ UsableIds(character_jobs[lookup_name(RecChar(r))], OriginalItem(r, k), RecLogic(r)) = {}

\* the record the pass is at
Current == << pc.b, pc.i >>

\* not player-controlled and not autoleveled, by the record's flag byte
BossFlags(r) == BitAnd(RecScene(r).flags, 6) # 0 /\ BitAnd(RecScene(r).flags, 1) = 0

\* the catalog weapons in the inventory of record r in buffer buf
InvWeapons(buf, r) ==
  { weapons_by_id[id] : id \in { buf[RecOffset(r) + INVENTORY_INDEX + k - 1] : k \in Slots } \cap DOMAIN weapons_by_id }

\* the byte the backfill addresses for a weapon kind
RankCell(char, kind) ==
  CHARACTER_TABLE_BASE + char * CHARACTER_SIZE + CHARACTER_WRANK_OFFSET + kind

MaxRank(ws) == CHOOSE m \in { w.rank : w \in ws } : \A w \in ws : w.rank <= m

\* C14 (as amended): after a record that is not player-controlled, not
\* autoleveled and whose character has a stored class is mutated, the rank
\* byte of each kind present in the new inventory is the maximum of its
\* previous value and the highest rank among the new weapons of that kind,
\* and no other character-table byte changes; every other step of the unit
\* pass leaves the character table unchanged.
BackfillMonotone ==
  [][ pc.phase = "unit" =>
        IF /\ outcome'[Current] \in { "fresh", "reused" }
           /\ BossFlags(Current)
           /\ Contains(character_jobs', RecChar(Current))
          THEN \A a \in CharAddrs :
                 rom'[a] =
                   IF \E w \in InvWeapons(rom', Current) : RankCell(RecChar(Current), w.kind) = a
                     THEN Max(rom[a], MaxRank({ w \in InvWeapons(rom', Current) : RankCell(RecChar(Current), w.kind) = a }))
                     ELSE rom[a]
          ELSE \A a \in CharAddrs : rom'[a] = rom[a] ]_vars

\* A boss record of a stored character was mutated and the rank byte of one
\* of its new weapons was raised to that weapon's rank.
BackfillWitness ==
  \E r \in Recs :
    /\ Mutated(r)
    /\ BossFlags(r)
    /\ Contains(character_jobs, RecChar(r))
    /\ \E w \in InvWeapons(rom, r) :
         /\ rom[RankCell(RecChar(r), w.kind)] = w.rank
         /\ TableByte(RankCell(RecChar(r), w.kind)) < w.rank

\* C14 as stated: the rank byte of every weapon of the new inventory is the
\* maximum of its previous value and that weapon's own rank.
BackfillEachWeapon ==
  [][ ( /\ pc.phase = "unit"
        /\ outcome'[Current] \in { "fresh", "reused" }
        /\ BossFlags(Current)
        /\ Contains(character_jobs', RecChar(Current)) ) =>
        \A w \in InvWeapons(rom', Current) :
          rom'[RankCell(RecChar(Current), w.kind)] = Max(rom[RankCell(RecChar(Current), w.kind)], w.rank) ]_vars

\* the eight weapon-rank bytes of a character's table entry
RankArray(char) == { RankCell(char, k) : k \in 0..7 }

\* C15: every character-table byte a step of the unit pass changes lies in
\* the weapon-rank sub-array (offsets CHARACTER_WRANK_OFFSET + 0..7) of the
\* entry of the record's own character, whatever the kinds of the weapons
\* in the new inventory.
BackfillWithinRankArray ==
  [][ pc.phase = "unit" =>
        \A a \in CharAddrs : rom'[a] # rom[a] => a \in RankArray(RecChar(Current)) ]_vars

\* the coordinates the two bytes at offset a of buffer buf decode to
CoordsAt(buf, a) == decode_unit_coords(read_short_le(buf, a))

\* C16: a record flagged ignore is skipped after its nudges are applied:
\* its start coordinates and the nudged REDA entries hold the nudge values
\* (the top four bits of each field kept), every other byte of the image,
\* the job id, inventory and AI bytes among them, is unchanged, the store
\* is unchanged and nothing is drawn.
IgnoredRecordsNudged ==
  [][ (pc.phase = "unit" /\ FlagSet(logic[pc.b][pc.i], "ignore")) =>
        /\ outcome'[Current] = "ignored"
        /\ "start" \in DOMAIN RecScene(Current).nudges =>
             /\ CoordsAt(rom', RecOffset(Current) + COORDS_INDEX) = RecScene(Current).nudges["start"]
             /\ read_short_le(rom', RecOffset(Current) + COORDS_INDEX) \div 4096
                  = read_short_le(rom, RecOffset(Current) + COORDS_INDEX) \div 4096
        /\ \A n \in 0..(RecScene(Current).reda_count - 1) :
             IndexKey(n) \in DOMAIN RecScene(Current).nudges =>
               /\ CoordsAt(rom', reda_array.offs + 8 * n) = RecScene(Current).nudges[IndexKey(n)]
               /\ read_short_le(rom', reda_array.offs + 8 * n) \div 4096
                    = read_short_le(rom, reda_array.offs + 8 * n) \div 4096
        /\ \A a \in DOMAIN rom : a \notin NudgedBytes(Current) => rom'[a] = rom[a]
        /\ character_jobs' = character_jobs
        /\ random' = random ]_vars

\* An ignored record with nudges was passed: its start coordinates and its
\* second REDA entry moved, its job byte and inventory did not.
IgnoredRecordWitness ==
  \E r \in Recs :
    /\ outcome[r] = "ignored"
    /\ "start" \in DOMAIN RecScene(r).nudges
    /\ "1" \in DOMAIN RecScene(r).nudges
    /\ RecScene(r).reda_count = 2
    /\ read_short_le(rom, RecOffset(r) + COORDS_INDEX) # RecScene(r).coords
    /\ CoordsAt(rom, RecOffset(r) + COORDS_INDEX) = RecScene(r).nudges["start"]
    /\ CoordsAt(rom, reda_array.offs + 8) = RecScene(r).nudges["1"]
    /\ JobByte(r) = RecScene(r).job
    /\ \A k \in Slots : NewItem(r, k) = OriginalItem(r, k)

\* C17 (as amended): in a mutated record a slot whose original item is not
\* in the weapon catalog keeps its item id whatever the new class, except
\* the lockpick: it stays only when the new class has the Lockpick tag and
\* otherwise becomes the chest key.
NonWeaponSlotsKept ==
  \A r \in Recs : Mutated(r) =>
    \A k \in Slots : OriginalItem(r, k) \notin DOMAIN weapons_by_id =>
      NewItem(r, k) =
        IF OriginalItem(r, k) # LOCKPICK THEN OriginalItem(r, k)
        ELSE IF "Lockpick" \in jobs_by_id[JobByte(r)].tags THEN LOCKPICK
        ELSE CHEST_KEY_5

\* A record was given another class and a weapon, and its item outside the
\* catalog is still in its slot.
NonWeaponSlotsWitness ==
  \E r \in Recs :
    /\ Mutated(r)
    /\ JobByte(r) # RecScene(r).job
    /\ \E k \in Slots :
         /\ OriginalItem(r, k) \notin DOMAIN weapons_by_id \cup { 0, LOCKPICK }
         /\ NewItem(r, k) = OriginalItem(r, k)
    /\ \E k \in Slots :
         /\ OriginalItem(r, k) \in DOMAIN weapons_by_id
         /\ NewItem(r, k) # OriginalItem(r, k)

\* C17 as stated: every slot whose original item is not in the catalog
\* holds the original item id.
NonWeaponSlotsUnchanged ==
  \A r \in Recs : Mutated(r) =>
    \A k \in Slots : OriginalItem(r, k) \notin DOMAIN weapons_by_id =>
      NewItem(r, k) = OriginalItem(r, k)

\* the record the pass is at is a player's, of a catalog class, not ignored,
\* and player-unit randomization is off
KeptPlayerRecord ==
  /\ pc.phase = "unit"
  /\ ~input.config.player_rando
  /\ FlagSet(logic[pc.b][pc.i], "player")
  /\ ~FlagSet(logic[pc.b][pc.i], "ignore")
  /\ RecScene(Current).job \in DOMAIN jobs_by_id \ { DRACOZOMBIE_JOB_ID }

LordPairs == << << EIRIKA, EIRIKA_LORD >>, << EPHRAIM, EPHRAIM_LORD >> >>

PersonalCell(k, i) ==
  CHARACTER_TABLE_BASE + LordPairs[k][1] * CHARACTER_SIZE + CHARACTER_STATS_OFFSET + i

JobCell(k, i) == JOB_TABLE_BASE + LordPairs[k][2] * JOB_SIZE + JOB_STATS_OFFSET + i

LordStats == 0..(STATS_COUNT - 1)

\* C20: when tweak_lords completes, for each of the two lord pairs and each
\* of the six stats the class base went down by d and the personal base up
\* by the same d, where d is the smaller of that stat's roll (in 0..4, the
\* rolls drawn in loop order) and the class base before; the sum of the two
\* bytes is preserved and the class base stays at or above 0.
LordStatsMoved ==
  [][ (pc.phase = "tweak_lords" /\ pc'.phase = "make_monsters_mounted") =>
        \A k \in DOMAIN LordPairs : \A i \in LordStats :
          /\ RandBelow(AdvanceBy(random, STATS_COUNT * (k - 1) + i), 5) \in 0..4
          /\ rom[JobCell(k, i)] - rom'[JobCell(k, i)]
               = Min(RandBelow(AdvanceBy(random, STATS_COUNT * (k - 1) + i), 5), rom[JobCell(k, i)])
          /\ rom'[PersonalCell(k, i)] - rom[PersonalCell(k, i)]
               = rom[JobCell(k, i)] - rom'[JobCell(k, i)]
          /\ rom'[JobCell(k, i)] + rom'[PersonalCell(k, i)]
               = rom[JobCell(k, i)] + rom[PersonalCell(k, i)]
          /\ rom'[JobCell(k, i)] >= 0 ]_vars

\* tweak_lords ran: one class base was drained to 0 by a larger roll, and
\* another was lowered by its roll and stays above 0.
LordStatsWitness ==
  /\ pc.phase \in { "make_monsters_mounted", "done" }
  /\ \E k \in DOMAIN LordPairs : \E i \in LordStats :
       /\ TableByte(JobCell(k, i)) \in 1..3
       /\ rom[JobCell(k, i)] = 0
       /\ rom[PersonalCell(k, i)] = TableByte(PersonalCell(k, i)) + TableByte(JobCell(k, i))
  /\ \E k \in DOMAIN LordPairs : \E i \in LordStats :
       /\ rom[JobCell(k, i)] > 0
       /\ rom[JobCell(k, i)] < TableByte(JobCell(k, i))

(***************************************************************************)
(* rewrite_coords on its own: one coordinate field, every (x, y) of the    *)
(* 64 x 64 grid, several old field values.                                 *)
(***************************************************************************)
\* the values both coordinates range over
CoordRange == 0..63

\* the 16-bit values the field holds before the rewrite
OldFields == { 0, 4095, 4096, 36874, 45057, 61440, 65535 }

\* the field rewritten: the coordinates of the first record of the first block
CoordsOffset == unit_blocks[1].base + COORDS_INDEX

\* the field, the byte before it and the two bytes after it
CoordsImage(old) ==
  [ a \in (CoordsOffset - 1)..(CoordsOffset + 3) |->
      IF a = CoordsOffset THEN old % 256
      ELSE IF a = CoordsOffset + 1 THEN old \div 256
      ELSE 170 ]

\* the variables of the pass, at rest
PassAtRest ==
  /\ logic = << >>
  /\ character_jobs = EmptyStore
  /\ random = 0
  /\ outcome = << >>
  /\ hashseed = 0
  /\ run = 1
  /\ first = NoFirst
  /\ patch = NoPatch
  /\ ctx = NoCtx
  /\ tasks = << >>

InitCoords ==
  \E x \in CoordRange, y \in CoordRange, old \in OldFields :
    /\ input = [ x |-> x, y |-> y, old |-> old ]
    /\ rom = CoordsImage(old)
    /\ pc = [ phase |-> "coords", b |-> 0, i |-> 0 ]
    /\ PassAtRest

\* self.rewrite_coords(offset, x, y)
RewriteCoords ==
  /\ pc.phase = "coords"
  /\ rom' = rewrite_coords(rom, CoordsOffset, input.x, input.y)
  /\ pc' = [pc EXCEPT !.phase = "rewritten"]
  /\ UNCHANGED << logic, character_jobs, random, outcome, input, ctx, tasks, hashseed, run, first, patch >>

NextCoords == RewriteCoords

SpecCoords == InitCoords /\ [][NextCoords]_vars

\* C7: for x and y in 0..63, encode_unit_coords(x, y) is y * 64 + x, fits in
\* 12 bits and decodes back to (x, y); rewrite_coords leaves the high 4 bits
\* of the 16-bit little-endian field as they were, makes its low 12 bits
\* encode_unit_coords(x, y), and touches no other byte.
CoordinateRoundTrip ==
  pc.phase \in { "coords", "rewritten" } =>
    /\ encode_unit_coords(input.x, input.y) = input.y * 64 + input.x
    /\ encode_unit_coords(input.x, input.y) < 4096
    /\ decode_unit_coords(encode_unit_coords(input.x, input.y)) = << input.x, input.y >>
    /\ pc.phase = "rewritten" =>
         /\ read_short_le(rom, CoordsOffset) \div 4096 = input.old \div 4096
         /\ read_short_le(rom, CoordsOffset) % 4096
              = encode_unit_coords(input.x, input.y)
         /\ \A a \in DOMAIN rom :
              a \notin { CoordsOffset, CoordsOffset + 1 } => rom[a] = CoordsImage(input.old)[a]

\* A field with all four flag bits set and other coordinates was rewritten
\* to the far corner of the grid.
CoordinateWitness ==
  /\ pc.phase = "rewritten"
  /\ input.old = 61440
  /\ input.x = 63
  /\ input.y = 63
  /\ read_short_le(rom, CoordsOffset) = 65535

(***************************************************************************)
(* fix_movement_costs on its own: the whole 49 x 65 table, run twice.      *)
(***************************************************************************)
\* the table contents are drawn from MaxShift + 1 shifts of each pattern
MaxShift == 2

\* the periods of the patterns the table is filled with
Periods == { 2, 3, 5 }

\* single cells set apart from the pattern: (row, terrain, value)
Pokes ==
  { << row, t, v >> : row \in { 0, 48 }, t \in { 13, 14, 62, 63, 64 },
                      v \in { 0, 254, IMPASSABLE } }

\* the table and the byte on either side of it
TableImage(m, k, poke) ==
  [ a \in MovementCells \cup { MOVEMENT_COST_TABLE_BASE - 1,
                               MOVEMENT_COST_TABLE_BASE
                                 + MOVEMENT_COST_ENTRY_COUNT * MOVEMENT_COST_ENTRY_SIZE } |->
      IF a = MOVEMENT_COST_TABLE_BASE + poke[1] * MOVEMENT_COST_ENTRY_SIZE + poke[2]
        THEN poke[3]
      ELSE IF (a + k) % m = 0 THEN IMPASSABLE
      ELSE IF (a + k) % m = 1 THEN MOVEMENT_COST_SENTINEL
      ELSE a % 9 ]

InitMove ==
  \E m \in Periods, k \in 0..MaxShift, poke \in Pokes :
    /\ input = [ table |-> TableImage(m, k, poke) ]
    /\ rom = TableImage(m, k, poke)
    /\ pc = [ phase |-> "table", b |-> 0, i |-> 0 ]
    /\ PassAtRest

\* self.fix_movement_costs(), a first and a second time
ApplyFixMovementCosts ==
  /\ pc.phase \in { "table", "fixed_once" }
  /\ rom' = fix_movement_costs(rom)
  /\ first' = IF pc.phase = "table" THEN [NoFirst EXCEPT !.phase = "fixed_once", !.rom = rom']
              ELSE first
  /\ pc' = [pc EXCEPT !.phase = IF pc.phase = "table" THEN "fixed_once" ELSE "fixed_twice"]
  /\ UNCHANGED << logic, character_jobs, random, outcome, input, ctx, tasks, hashseed, run, patch >>

NextMove == ApplyFixMovementCosts

SpecMove == InitMove /\ [][NextMove]_vars

\* C8: running fix_movement_costs twice gives the buffer one run gives; after
\* a run, every important-terrain entry of the 49 rows that held 255 holds
\* 31, and every entry that was not 255, every entry at a non-important
\* terrain index and every byte outside the table is unchanged.
MovementFixIdempotent ==
  /\ pc.phase = "fixed_twice" => rom = first.rom
  /\ pc.phase \in { "fixed_once", "fixed_twice" } =>
       \A a \in DOMAIN rom :
         IF a \in ImportantCells /\ input.table[a] = IMPASSABLE
           THEN rom[a] = MOVEMENT_COST_SENTINEL
           ELSE rom[a] = input.table[a]

\* The table was fixed twice; it held impassable entries at important and at
\* other terrain indices, and entries already equal to the sentinel.
MovementFixWitness ==
  /\ pc.phase = "fixed_twice"
  /\ rom # input.table
  /\ \E a \in ImportantCells : input.table[a] = IMPASSABLE /\ rom[a] = MOVEMENT_COST_SENTINEL
  /\ \E a \in MovementCells \ ImportantCells : rom[a] = IMPASSABLE
  /\ \E a \in ImportantCells : input.table[a] = MOVEMENT_COST_SENTINEL
  /\ Cardinality(ImportantCells) = MOVEMENT_COST_ENTRY_COUNT * Len(IMPORTANT_TERRAIN_TYPES)

(***************************************************************************)
(* generate_output and write_tokens (rom.py): the pass, the optional       *)
(* passes, the per-world writes, the emitted delta, the write tokens and   *)
(* the replay of delta and tokens on the base image.                       *)
(***************************************************************************)
SLOT_NAME_OFFS == SLOT_NAME_ADDR - ROM_BASE_ADDRESS

ITEM_TABLE_BASE == 8428304
ITEM_SIZE == 36
ITEM_ABILITY_1_INDEX == 8
UNBREAKABLE_FLAG == 8
HOLY_WEAPON_IDS == << 133, 146, 74, 147, 148, 142, 62, 145, 135 >>

\* CharacterStore.lookup_ids(char_name)
lookup_ids(char_name) ==
  IF char_name \notin DOMAIN ids_by_name THEN "None" ELSE ids_by_name[char_name]

\* the characters apply_5x_buffs names
BuffedCharacters == << "Ephraim", "Forde", "Kyle" >>

\* the stat bytes of one character id, in loop order
StatCells(char_id) ==
  [ i \in 1..STATS_COUNT |->
      CHARACTER_TABLE_BASE + CHARACTER_SIZE * char_id + CHARACTER_STATS_OFFSET + (i - 1) ]

RECURSIVE StatCellsOfIds(_)
StatCellsOfIds(ids) ==
  IF ids = << >> THEN << >> ELSE StatCells(Head(ids)) \o StatCellsOfIds(Tail(ids))

\* the bytes apply_5x_buffs increments, in loop order; a name without ids
\* is logged and skipped
RECURSIVE BuffCells(_)
BuffCells(names) ==
  IF names = << >> THEN << >>
  ELSE IF lookup_ids(Head(names)) = "None" THEN BuffCells(Tail(names))
  ELSE StatCellsOfIds(lookup_ids(Head(names))) \o BuffCells(Tail(names))

\* self.rom[cell] += 2 for the cells in order; a bytearray element above
\* 255 is a ValueError, and the increments before it stay
RECURSIVE AddTwo(_, _)
AddTwo(buf, cells) ==
  IF cells = << >> THEN [ ok |-> TRUE, rom |-> buf ]
  ELSE IF buf[Head(cells)] + 2 > 255 THEN [ ok |-> FALSE, rom |-> buf ]
  ELSE AddTwo([buf EXCEPT ![Head(cells)] = @ + 2], Tail(cells))

apply_5x_buffs(buf) == AddTwo(buf, BuffCells(BuffedCharacters))

\* the ability byte of every holy weapon's item entry
HolyCells ==
  { ITEM_TABLE_BASE + HOLY_WEAPON_IDS[k] * ITEM_SIZE + ITEM_ABILITY_1_INDEX :
      k \in DOMAIN HOLY_WEAPON_IDS }

apply_infinite_holy_weapons(buf) ==
  [ a \in DOMAIN buf |->
      IF a \in HolyCells THEN BitOr(buf[a], UNBREAKABLE_FLAG) ELSE buf[a] ]

\* rom_location(loc)
rom_location(loc) == LOCATION_INFO_OFFS + loc.local_address * LOCATION_INFO_SIZE

\* location.item and location.item.player == player
OwnItem(loc) == loc.item = "own"

\* generate_output's loop over the player's locations
RECURSIVE WriteLocations(_, _)
WriteLocations(buf, locs) ==
  IF locs = << >> THEN buf
  ELSE IF OwnItem(Head(locs))
    THEN WriteLocations(
           write_short_le(write_short_le(buf, rom_location(Head(locs)), SELF_ITEM_KIND),
                          rom_location(Head(locs)) + 2, Head(locs).local_code),
           Tail(locs))
  ELSE WriteLocations(write_short_le(buf, rom_location(Head(locs)), AP_ITEM_KIND),
                      Tail(locs))

\* bytearray indexing: index n of a buffer of `size` bytes, -1 when Python
\* raises IndexError
PyIndex(n, size) ==
  IF n >= 0 /\ n < size THEN n
  ELSE IF n < 0 /\ n >= 0 - size THEN size + n
  ELSE -1

\* patched_rom[SLOT_NAME_OFFS + i] = byte, for the bytes of the name in order
RECURSIVE WriteName(_, _, _, _)
WriteName(buf, size, name, i) ==
  IF i >= Len(name) THEN [ ok |-> TRUE, rom |-> buf ]
  ELSE IF PyIndex(SLOT_NAME_OFFS + i, size) = -1 THEN [ ok |-> FALSE, rom |-> buf ]
  ELSE WriteName((PyIndex(SLOT_NAME_OFFS + i, size) :> name[i + 1]) @@ buf, size, name,
                 i + 1)

\* FE8ProcedurePatch.write_bytes_le(offs, val, size): one WRITE token
write_bytes_le(offs, val, size) ==
  [ offs |-> offs, data |-> [ i \in 1..size |-> ShiftRight(val, 8 * (i - 1)) % 256 ] ]

\* FE8ProcedurePatch.write_byte(offs, val)
write_byte(offs, val) == [ offs |-> offs, data |-> << val >> ]

\* write_tokens' loop over the player's locations
RECURSIVE LocationTokens(_)
LocationTokens(locs) ==
  IF locs = << >> THEN << >>
  ELSE IF OwnItem(Head(locs))
    THEN << write_bytes_le(rom_location(Head(locs)), SELF_ITEM_KIND, 2),
            write_bytes_le(rom_location(Head(locs)) + 2, Head(locs).local_code, 2) >>
         \o LocationTokens(Tail(locs))
  ELSE << write_bytes_le(rom_location(Head(locs)), AP_ITEM_KIND, 2) >>
       \o LocationTokens(Tail(locs))

\* int(bool(options.super_demon_king))
IntOfBool(b) == IF b THEN 1 ELSE 0

\* write_tokens(world, patch): the token list, in the order written
write_tokens(world) ==
  << [ offs |-> SLOT_NAME_OFFS,
       data |-> SubSeq(world.name, 1, Min(Len(world.name), SLOT_NAME_CAP)) ] >>
  \o LocationTokens(world.locations)
  \o << write_byte(SUPER_DEMON_KING_OFFS, IntOfBool(world.options.super_demon_king)) >>

\* the binary delta from `base` to `patched`: the bytes that differ
Delta(base, patched) ==
  { << a, patched[a] >> :
      a \in { c \in DOMAIN patched : c \notin DOMAIN base \/ base[c] # patched[c] } }

\* the delta applied to `base`
ApplyDelta(base, delta) ==
  [ a \in DOMAIN base \cup { d[1] : d \in delta } |->
      IF \E d \in delta : d[1] = a THEN (CHOOSE d \in delta : d[1] = a)[2]
      ELSE base[a] ]

\* one WRITE token replayed: the literal bytes at the offset; bytes outside
\* the image fail the replay
ApplyToken(buf, size, t) ==
  IF t.data = << >> THEN [ ok |-> TRUE, rom |-> buf ]
  ELSE IF t.offs < 0 \/ t.offs + Len(t.data) > size THEN [ ok |-> FALSE, rom |-> buf ]
  ELSE [ ok |-> TRUE,
         rom |-> [ a \in t.offs..(t.offs + Len(t.data) - 1) |-> t.data[a - t.offs + 1] ]
                 @@ buf ]

\* the token list replayed in order
RECURSIVE ApplyTokens(_, _, _)
ApplyTokens(buf, size, tokens) ==
  IF tokens = << >> THEN [ ok |-> TRUE, rom |-> buf ]
  ELSE IF ~ApplyToken(buf, size, Head(tokens)).ok THEN [ ok |-> FALSE, rom |-> buf ]
  ELSE ApplyTokens(ApplyToken(buf, size, Head(tokens)).rom, size, Tail(tokens))

\* the connector's region: location info and the boss toggle
LocationIds == { 0, 1, 33 }
ConnectorCells ==
  { SUPER_DEMON_KING_OFFS }
  \cup { LOCATION_INFO_OFFS + l * LOCATION_INFO_SIZE + k :
           l \in LocationIds, k \in 0..(LOCATION_INFO_SIZE - 1) }

\* patched_rom = bsdiff4.patch(base_rom, base_patch), on the offsets the
\* generation touches
PatchedImage(sc) ==
  BaseImage(sc) @@ [ a \in HolyCells \cup ConnectorCells |->
                       IF a \in HolyCells THEN a % 16 ELSE 0 ]

\* base_rom: the image before the base patch installs the connector region
OriginalImage(sc) == [ a \in ConnectorCells |-> 255 ] @@ PatchedImage(sc)

\* the sizes of the image
RomSizes == { 16777216, 33554432 }

\* player names, as UTF-8 bytes: empty, one byte, 64 bytes
PlayerNames == { << >>, << 65 >>, [ i \in 1..64 |-> 65 + (i % 26) ] }

Location(la, item, code) == [ local_address |-> la, item |-> item, local_code |-> code ]

\* multiworld.get_locations(player)
LocationLists ==
  { << >>,
    << Location(0, "own", 9), Location(33, "other", 0) >>,
    << Location(1, "none", 0), Location(0, "other", 0), Location(33, "own", 258) >> }

\* the spawn records of the worlds generated
PatchSceneChoices ==
  { [ r \in Recs |-> Scenes4[IF r[1] = 1 THEN r[2] + 1 ELSE r[2] + 3] ] :
      Scenes4 \in { << 1, 2, 1, 2 >>, << 10, 7, 1, 2 >>, << 5, 1, 1, 2 >> } }

\* the toggles generate_output reads; shuffle_skirmish_tables stays off
\* (randomize_monster_gen is not part of this revision of fe8py)
OptionSets ==
  [ player_unit_rando : BOOLEAN, player_unit_monsters : BOOLEAN,
    super_demon_king : BOOLEAN, easier_5x : BOOLEAN, unbreakable_regalia : BOOLEAN ]

\* a world: generate_output's arguments and the constructor's it derives
World(sc, o, name, locs, size) ==
  [ scenes |-> sc, rules |-> RuleSets[1],
    config |-> [ player_rando |-> o.player_unit_rando,
                 player_monster |-> o.player_unit_monsters ],
    seed |-> 0, rerun |-> FALSE,
    options |-> o, name |-> name, locations |-> locs, size |-> size ]

Worlds ==
  { World(sc, o, name, locs, size) :
      sc \in PatchSceneChoices, o \in OptionSets, name \in PlayerNames,
      locs \in LocationLists, size \in RomSizes }

\* generate_output up to the constructed randomizer: the config dict is the
\* constructor's settings argument
InitPatch ==
  \E w \in Worlds :
    /\ input = w
    /\ hashseed = 0
    /\ run = 1
    /\ first = NoFirst
    /\ patch = NoPatch
    /\ ctx = NoCtx
    /\ tasks = << >>
    /\ rom = PatchedImage(w.scenes)
    /\ logic = InitialLogic(w)
    /\ character_jobs = EmptyStore
    /\ random = w.seed
    /\ pc = StartPc
    /\ outcome = [ r \in Recs |-> "pending" ]

\* if options.easier_5x: randomizer.apply_5x_buffs()
Apply5xBuffs ==
  /\ pc.phase = "done"
  /\ \E res \in { IF input.options.easier_5x THEN apply_5x_buffs(rom)
                  ELSE [ ok |-> TRUE, rom |-> rom ] } :
        /\ rom' = res.rom
        /\ pc' = IF res.ok THEN [pc EXCEPT !.phase = "unbreakable_regalia"] ELSE Raised
  /\ UNCHANGED << logic, character_jobs, random, outcome, input, ctx, tasks, hashseed, run, first, patch >>

\* the unbreakable flag set whatever the option says
ApplyInfiniteHolyWeaponsAlways ==
  /\ pc.phase = "unbreakable_regalia"
  /\ rom' = apply_infinite_holy_weapons(rom)
  /\ pc' = [pc EXCEPT !.phase = "locations"]
  /\ UNCHANGED << logic, character_jobs, random, outcome, input, ctx, tasks, hashseed, run, first, patch >>

\* if options.unbreakable_regalia: randomizer.apply_infinite_holy_weapons()
ApplyInfiniteHolyWeapons ==
  /\ pc.phase = "unbreakable_regalia"
  /\ rom' = IF input.options.unbreakable_regalia THEN apply_infinite_holy_weapons(rom)
            ELSE rom
  /\ pc' = [pc EXCEPT !.phase = "locations"]
  /\ UNCHANGED << logic, character_jobs, random, outcome, input, ctx, tasks, hashseed, run, first, patch >>

\* the item kind (and local code) of every location of the player
WriteLocationInfo ==
  /\ pc.phase = "locations"
  /\ rom' = WriteLocations(rom, input.locations)
  /\ pc' = [pc EXCEPT !.phase = "super_demon_king"]
  /\ UNCHANGED << logic, character_jobs, random, outcome, input, ctx, tasks, hashseed, run, first, patch >>

\* patched_rom[SUPER_DEMON_KING_OFFS] = int(bool(options.super_demon_king))
WriteSuperDemonKing ==
  /\ pc.phase = "super_demon_king"
  /\ rom' = [rom EXCEPT ![SUPER_DEMON_KING_OFFS] = IntOfBool(input.options.super_demon_king)]
  /\ pc' = [pc EXCEPT !.phase = "player_name"]
  /\ UNCHANGED << logic, character_jobs, random, outcome, input, ctx, tasks, hashseed, run, first, patch >>

\* the loop writing the player's name; an index outside the buffer is an
\* IndexError that leaves generate_output before anything is emitted
WritePlayerName ==
  /\ pc.phase = "player_name"
  /\ \E res \in { WriteName(rom, input.size, input.name, 0) } :
        /\ rom' = res.rom
        /\ pc' = [pc EXCEPT !.phase = IF res.ok THEN "emit" ELSE "index_error"]
  /\ UNCHANGED << logic, character_jobs, random, outcome, input, ctx, tasks, hashseed, run, first, patch >>

\* FE8DeltaPatch(...).write(): the delta from the base image to the buffer
EmitDelta ==
  /\ pc.phase = "emit"
  /\ patch' = [patch EXCEPT !.emitted = Delta(OriginalImage(input.scenes), rom)]
  /\ pc' = [pc EXCEPT !.phase = "emitted"]
  /\ UNCHANGED << rom, logic, character_jobs, random, outcome, input, ctx, tasks, hashseed, run, first >>

\* write_tokens(world, patch) for the same world
WriteTokens ==
  /\ pc.phase = "emitted"
  /\ patch' = [patch EXCEPT !.tokens = write_tokens(input)]
  /\ pc' = [pc EXCEPT !.phase = "tokens"]
  /\ UNCHANGED << rom, logic, character_jobs, random, outcome, input, ctx, tasks, hashseed, run, first >>

\* the package applied to the base image: the delta, then the tokens in order
ApplyPatch ==
  /\ pc.phase = "tokens"
  /\ \E res \in { ApplyTokens(ApplyDelta(OriginalImage(input.scenes), patch.emitted),
                              input.size, patch.tokens) } :
        /\ patch' = [patch EXCEPT !.replayed = res.rom]
        /\ pc' = [pc EXCEPT !.phase = IF res.ok THEN "replayed" ELSE "replay_failed"]
  /\ UNCHANGED << rom, logic, character_jobs, random, outcome, input, ctx, tasks, hashseed, run, first >>

NextPatch ==
  \/ ExpandGroupRules
  \/ SkipIgnored
  \/ SkipForeign
  \/ KeepPlayerUnit
  \/ AssignFresh
  \/ ReuseStored
  \/ RaiseLogicError
  \/ FixMovementCosts
  \/ FixCutscenes
  \/ TweakLords
  \/ MakeMonstersMounted
  \/ Apply5xBuffs
  \/ ApplyInfiniteHolyWeapons
  \/ WriteLocationInfo
  \/ WriteSuperDemonKing
  \/ WritePlayerName
  \/ EmitDelta
  \/ WriteTokens
  \/ ApplyPatch

SpecPatch == InitPatch /\ [][NextPatch]_vars

\* C9: for every world, options, player name and seed whose randomization
\* pass completes, generate_output produces its in-memory patched buffer
\* and emits the delta, and the delta applied to the base image followed by
\* the tokens of write_tokens replayed in order is byte-identical to it.
PatchReplayEquivalence ==
  /\ pc.phase \notin { "index_error", "replay_failed" }
  /\ pc.phase = "replayed" => patch.replayed = rom

\* The worlds for which generate_output does emit: there the replay
\* reproduces the in-memory buffer.
ReplayOfEmittedPatch == pc.phase = "replayed" => patch.replayed = rom

\* A package was emitted and replayed for a world with own and foreign
\* items, with the optional passes on.
ReplayOfEmittedPatchWitness ==
  /\ pc.phase = "replayed"
  /\ Len(input.locations) = 3
  /\ input.options.easier_5x
  /\ input.options.unbreakable_regalia
  /\ input.options.super_demon_king
  /\ patch.replayed = rom
  /\ rom # OriginalImage(input.scenes)

(***************************************************************************)
(* CharacterStore on its own: each operation applied to a store and an id. *)
(***************************************************************************)
StoreIds == { 0, 1, 15, 66, 109, 200, 255 }

StoreJobs == { 5, 7, 72 }

\* the stores a pass can build: any subset of the named characters, each
\* with a catalog class
StoreChoices ==
  UNION { [ names -> StoreJobs ] : names \in SUBSET { "Eirika", "Orson" } }

InitStore ==
  \E store \in StoreChoices, char \in StoreIds, job \in StoreJobs :
    /\ input = [ store |-> store, char |-> char, job |-> job ]
    /\ character_jobs = store
    /\ pc = [ phase |-> "store", b |-> 0, i |-> 0 ]
    /\ rom = << >>
    /\ logic = << >>
    /\ random = 0
    /\ outcome = << >>
    /\ hashseed = 0
    /\ run = 1
    /\ first = NoFirst
    /\ patch = NoPatch
    /\ ctx = NoCtx
    /\ tasks = << >>

\* store[char] = job
StoreSet ==
  /\ pc.phase = "store"
  /\ character_jobs' = SetItem(character_jobs, input.char, input.job)
  /\ outcome' = [ ok |-> TRUE, found |-> FALSE ]
  /\ pc' = [pc EXCEPT !.phase = "set"]
  /\ UNCHANGED << rom, logic, random, input, ctx, tasks, hashseed, run, first, patch >>

\* store[char]
StoreGet ==
  /\ pc.phase = "store"
  /\ outcome' = TryGetItem(character_jobs, input.char)
  /\ pc' = [pc EXCEPT !.phase = "get"]
  /\ UNCHANGED << rom, logic, character_jobs, random, input, ctx, tasks, hashseed, run, first, patch >>

\* char in store
StoreContains ==
  /\ pc.phase = "store"
  /\ outcome' = [ ok |-> TRUE, found |-> Contains(character_jobs, input.char) ]
  /\ pc' = [pc EXCEPT !.phase = "contains"]
  /\ UNCHANGED << rom, logic, character_jobs, random, input, ctx, tasks, hashseed, run, first, patch >>

\* store.tags(char)
StoreTags ==
  /\ pc.phase = "store"
  /\ outcome' = TryTags(input.char)
  /\ pc' = [pc EXCEPT !.phase = "tags"]
  /\ UNCHANGED << rom, logic, character_jobs, random, input, ctx, tasks, hashseed, run, first, patch >>

\* store.lookup_name(char)
StoreLookupName ==
  /\ pc.phase = "store"
  /\ outcome' = TryLookupName(input.char)
  /\ pc' = [pc EXCEPT !.phase = "lookup_name"]
  /\ UNCHANGED << rom, logic, character_jobs, random, input, ctx, tasks, hashseed, run, first, patch >>

NextStore == StoreSet \/ StoreGet \/ StoreContains \/ StoreTags \/ StoreLookupName

SpecStore == InitStore /\ [][NextStore]_vars

UnknownId == input.char \notin DOMAIN names_by_id

\* C12: for an id outside the alias table the write leaves the store as it
\* was, and every read (contains, get, tags, lookup_name) completes and
\* reports not-found as a value instead of failing.
UnknownIdNeverFails ==
  (UnknownId /\ pc.phase # "store") =>
    /\ character_jobs = input.store
    /\ outcome.ok
    /\ ~outcome.found

\* What does hold: the write, contains, tags and lookup_name behave so; only
\* the subscript read fails.
UnknownIdExceptGet ==
  (UnknownId /\ pc.phase # "store") =>
    /\ character_jobs = input.store
    /\ pc.phase # "get" => (outcome.ok /\ ~outcome.found)
    /\ pc.phase = "get" => outcome = [ ok |-> FALSE, error |-> "KeyError" ]

UnknownIdExceptGetWitness ==
  /\ UnknownId
  /\ pc.phase = "set"
  /\ input.store # EmptyStore

(***************************************************************************)
(* The three toggle passes on their own, applied in any order and number.  *)
(***************************************************************************)
MaxPasses == 2

MountedCells ==
  { JOB_TABLE_BASE + j * JOB_SIZE + JOB_ABILITY_1_INDEX : j \in Range(MOUNTED_MONSTERS) }

ToggleCells == Range(BuffCells(BuffedCharacters)) \cup MountedCells \cup HolyCells

\* images of the three tables: one value per table
ToggleImage(stat, ability, flags) ==
  [ a \in ToggleCells |->
      IF a \in MountedCells THEN ability ELSE IF a \in HolyCells THEN flags ELSE stat ]

ToggleNames == { "buff", "mounted", "holy" }

\* one toggle pass on buf; ok = FALSE is the ValueError of the stat buff
Toggle(name, buf) ==
  IF name = "buff" THEN apply_5x_buffs(buf)
  ELSE IF name = "mounted" THEN [ ok |-> TRUE, rom |-> make_monsters_mounted(buf) ]
  ELSE [ ok |-> TRUE, rom |-> apply_infinite_holy_weapons(buf) ]

RECURSIVE ToggleAll(_, _)
\* the passes named in names, left to right, stopping at a ValueError
ToggleAll(names, res) ==
  IF names = << >> \/ ~res.ok THEN res
  ELSE ToggleAll(Tail(names), Toggle(Head(names), res.rom))

InitToggle ==
  \E stat \in { 0, 5, 252, 254 }, ability \in { 0, 1, 3, 12 }, flags \in { 0, 7, 8 } :
    /\ rom = ToggleImage(stat, ability, flags)
    /\ input = [ rom |-> ToggleImage(stat, ability, flags) ]
    /\ pc = [ phase |-> "toggle", b |-> 0, i |-> 0 ]
    /\ logic = << >>
    /\ character_jobs = EmptyStore
    /\ random = 0
    /\ outcome = << >>
    /\ hashseed = 0
    /\ run = 1
    /\ first = NoFirst
    /\ patch = NoPatch
    /\ ctx = NoCtx
    /\ tasks = << >>

\* the pass `name` is applied
ApplyToggle(name) ==
  /\ pc.phase = "toggle"
  /\ Len(outcome) < MaxPasses
  /\ \E res \in { Toggle(name, rom) } :
        /\ rom' = res.rom
        /\ pc' = IF res.ok THEN pc ELSE Raised
  /\ outcome' = Append(outcome, name)
  /\ UNCHANGED << logic, character_jobs, random, input, ctx, tasks, hashseed, run, first, patch >>

\* randomizer.apply_5x_buffs()
ToggleBuff ==
  /\ pc.phase = "toggle"
  /\ ApplyToggle("buff")

\* randomizer.make_monsters_mounted()
ToggleMounted ==
  /\ pc.phase = "toggle"
  /\ ApplyToggle("mounted")

\* randomizer.apply_infinite_holy_weapons()
ToggleHoly ==
  /\ pc.phase = "toggle"
  /\ ApplyToggle("holy")

NextToggle == ToggleBuff \/ ToggleMounted \/ ToggleHoly

SpecToggle == InitToggle /\ [][NextToggle]_vars

\* the passes applied so far, with the one at position k left out
Without(seq, k) == SubSeq(seq, 1, k - 1) \o SubSeq(seq, k + 1, Len(seq))

\* the buffer after the passes in names, from the initial image
After(names) == ToggleAll(names, [ ok |-> TRUE, rom |-> input.rom ])

\* applying a pass a second time changes nothing, for the passes in names
Idempotent(names) ==
  \A k \in 1..(Len(outcome) - 1) :
    (outcome[k] = outcome[k + 1] /\ outcome[k] \in names) =>
      rom = After(Without(outcome, k)).rom

\* C19 (as amended): the mounted mask and the unbreakable flag are
\* idempotent, and any passes that complete give the same buffer in the
\* reverse order; the stat buff is not idempotent: applied twice it adds 4
\* to every stat byte it names.
TogglesCommute ==
  pc.phase = "toggle" =>
    /\ Idempotent({ "mounted", "holy" })
    /\ After(Reverse(outcome)).ok
    /\ rom = After(Reverse(outcome)).rom
    /\ outcome = << "buff", "buff" >> =>
         \A a \in Range(BuffCells(BuffedCharacters)) : rom[a] = input.rom[a] + 4

\* Two different passes ran and each changed its own table.
TogglesWitness ==
  /\ pc.phase = "toggle"
  /\ outcome = << "holy", "mounted" >>
  /\ \E a \in HolyCells : rom[a] # input.rom[a]
  /\ \E a \in MountedCells : rom[a] # input.rom[a]
  /\ rom # After(<< "holy" >>).rom
  /\ rom # After(<< "mounted" >>).rom

\* C19 as stated: each of the three passes is idempotent.
TogglesIdempotent == pc.phase = "toggle" => Idempotent(ToggleNames)

(***************************************************************************)
(* Properties of the post passes and of eligibility.                       *)
(***************************************************************************)
CutscenesDone == pc.phase \in { "tweak_lords", "make_monsters_mounted", "done" }

StoredJob(name) == jobs_by_id[character_jobs[name]]

SupportIds == { weapons_by_name[n].id : n \in { "Heal", "Mend", "Recover" } }

\* the ids fix_cutscenes can draw for a stored class from the bucket of the
\* weapon named `name`
ScriptedIds(owner, name) ==
  UsableIds(character_jobs[owner], weapons_by_name[name].id, EmptyLogic)

\* C21 (as amended): once fix_cutscenes has run, each scripted slot holds an
\* item the stored class can use under empty logic, drawn from the rank
\* bucket (injected fallbacks included) of the slot's reference weapon:
\* Steel Blade for Eirika's Rapier slot, Steel Sword and Steel Lance for the
\* two Ch15 slots; for the Rapier slot, when the class's only usable kind is
\* Staff, the item is one of Heal, Mend, Recover instead.
CutsceneItemsUsable ==
  CutscenesDone =>
    /\ rom[EIRIKA_RAPIER_OFFSET] \in
         IF StoredJob("Eirika").usable_weapons = { STAFF } THEN SupportIds
         ELSE ScriptedIds("Eirika", "Steel Blade")
    /\ rom[CH15_AUTO_STEEL_SWORD] \in ScriptedIds("Eirika", "Steel Sword")
    /\ rom[CH15_AUTO_STEEL_LANCE] \in ScriptedIds("Ephraim", "Steel Lance")
    /\ \A a \in { EIRIKA_RAPIER_OFFSET, CH15_AUTO_STEEL_SWORD } :
         weapon_usable(weapons_by_id[rom[a]], StoredJob("Eirika"), EmptyLogic)
    /\ weapon_usable(weapons_by_id[rom[CH15_AUTO_STEEL_LANCE]], StoredJob("Ephraim"), EmptyLogic)

\* Eirika was stored as a staff-only class and her Rapier slot holds a staff.
CutsceneWitness ==
  /\ pc.phase = "done"
  /\ StoredJob("Eirika").usable_weapons = { STAFF }
  /\ rom[EIRIKA_RAPIER_OFFSET] \in SupportIds
  /\ rom[CH15_AUTO_STEEL_SWORD] \in SupportIds
  /\ StoredJob("Ephraim").id # EPHRAIM_LORD

\* the item in a scripted slot has the rank of the slot's original weapon
\* and is usable, or is a support item for a class without damaging kinds
SameRankOrSupport(a, owner, original) ==
  \/ /\ weapons_by_id[rom[a]].rank = weapons_by_name[original].rank
     /\ weapon_usable(weapons_by_id[rom[a]], StoredJob(owner), EmptyLogic)
  \/ /\ \A k \in StoredJob(owner).usable_weapons : ~damaging(k)
     /\ rom[a] \in SupportIds
     /\ weapons_by_id[rom[a]].kind \in StoredJob(owner).usable_weapons

\* C21 as stated: every scripted slot holds a weapon of the rank of the
\* original scripted weapon, or a usable support item.
CutsceneItemsSameRank ==
  CutscenesDone =>
    /\ SameRankOrSupport(EIRIKA_RAPIER_OFFSET, "Eirika", "Rapier")
    /\ SameRankOrSupport(CH15_AUTO_STEEL_SWORD, "Eirika", "Steel Sword")
    /\ SameRankOrSupport(CH15_AUTO_STEEL_LANCE, "Ephraim", "Steel Lance")

\* the classes a fresh draw for record r may return
EligibleJobs(r) ==
  { j \in Range(job_data) :
      /\ j.is_promoted = jobs_by_id[RecScene(r).job].is_promoted
      /\ "no_rando" \notin j.tags
      /\ job_valid(j, RecLogic(r), input.config.player_monster) }

\* C26: a record that was given a fresh class holds a class with the
\* promoted flag of its original class, without the no_rando tag, that
\* satisfies job_valid for the record's logic; and a record that was reached
\* by the fresh draw with no such class has raised: the pass has stopped and
\* the record keeps its original class.
FreshDrawKeepsTier ==
  \A r \in Recs :
    /\ outcome[r] = "fresh" =>
         /\ JobByte(r) \in DOMAIN jobs_by_id
         /\ jobs_by_id[JobByte(r)] \in EligibleJobs(r)
    /\ (outcome[r] \notin { "pending", "foreign", "ignored", "kept", "reused" }
          /\ EligibleJobs(r) = {}) =>
         /\ outcome[r] = "raised"
         /\ pc.phase = "raised"
         /\ JobByte(r) = RecScene(r).job

\* one record was given a fresh class that differs from its original one,
\* and a later record found no eligible class and raised
FreshDrawWitness ==
  /\ \E r \in Recs :
       /\ outcome[r] = "fresh"
       /\ JobByte(r) # RecScene(r).job
  /\ \E r \in Recs : outcome[r] = "raised" /\ EligibleJobs(r) = {}

\* C24: a record whose logic has no_fly true and that was given a fresh
\* class does not hold a class carrying the flying tag.
NoFlyNeverFlying ==
  \A r \in Recs :
    (outcome[r] = "fresh" /\ FlagSet(RecLogic(r), "no_fly")) =>
      "flying" \notin jobs_by_id[JobByte(r)].tags

\* C27 (as amended): the stat buff and the unbreakable flag are applied
\* exactly when their option is enabled, and with the option disabled the
\* step leaves the whole buffer as the earlier passes produced it; the
\* mounted mask has no option: the last step of apply_base_changes sets it
\* on every designated monster job entry in every configuration.  Each of
\* the three steps changes only its own bytes.
OptionalPassesGated ==
  [][ /\ (pc.phase = "done" /\ pc'.phase # "done") =>
           IF input.options.easier_5x
           THEN /\ \A a \in DOMAIN rom \ Range(BuffCells(BuffedCharacters)) : rom'[a] = rom[a]
                /\ pc'.phase # "raised" =>
                     \A a \in Range(BuffCells(BuffedCharacters)) : rom'[a] >= rom[a] + 2
           ELSE rom' = rom
      /\ (pc.phase = "unbreakable_regalia" /\ pc'.phase # "unbreakable_regalia") =>
           IF input.options.unbreakable_regalia
           THEN \A a \in DOMAIN rom :
                  rom'[a] = IF a \in HolyCells THEN BitOr(rom[a], UNBREAKABLE_FLAG) ELSE rom[a]
           ELSE rom' = rom
      /\ (pc.phase = "make_monsters_mounted" /\ pc'.phase = "done") =>
           \A a \in DOMAIN rom :
             rom'[a] = IF a \in MountedCells THEN BitOr(rom[a], MOUNTED_AID_CANTO_MASK)
                       ELSE rom[a]
    ]_vars

\* the buff is off and the unbreakable flag on: after both steps a holy
\* weapon and a monster job differ from the base image, the stats of the
\* buffed characters are as tweak_lords left them
OptionalPassesWitness ==
  /\ pc.phase = "locations"
  /\ ~input.options.easier_5x
  /\ input.options.unbreakable_regalia
  /\ \E a \in HolyCells \cap DOMAIN rom : rom[a] # PatchedImage(input.scenes)[a]
  /\ \E a \in MountedCells \cap DOMAIN rom : rom[a] # PatchedImage(input.scenes)[a]

\* C27 as stated: with the options disabled, the steps that follow the
\* mandatory post passes leave the stat bytes, the monster job bytes and the
\* holy weapon bytes as they were.
OptionalPassesAllGated ==
  [][ (/\ pc.phase \in { "make_monsters_mounted", "done", "unbreakable_regalia" }
       /\ ~input.options.easier_5x
       /\ ~input.options.unbreakable_regalia) =>
        \A a \in DOMAIN rom \cap (Range(BuffCells(BuffedCharacters)) \cup MountedCells \cup HolyCells) :
          rom'[a] = rom[a]
    ]_vars

\* the 64 bytes of the slot-name string, up to the boss toggle byte
SlotCells == SLOT_NAME_ADDR .. (SUPER_DEMON_KING_OFFS - 1)

\* the offsets a WRITE token covers
TokenCells(token) == { token.offs + k - 1 : k \in 1 .. Len(token.data) }

\* C28: for every player name, the name token of write_tokens covers only
\* bytes of the 64-byte slot, and the name loop of generate_output changes
\* only bytes of the slot, so the boss toggle byte and the location records
\* keep the values written for them.
NameWriteInsideSlot ==
  /\ [](pc.phase = "player_name" =>
          TokenCells(write_tokens(input)[1]) \subseteq SlotCells)
  /\ [][pc.phase = "player_name" =>
          \A a \in DOMAIN rom' : (a \notin DOMAIN rom \/ rom'[a] # rom[a]) => a \in SlotCells]_vars

(***************************************************************************)
(* The client: handle_read_data.  Each poll of the emulator that is read   *)
(* successfully starts one handle_read_data task (async_start); a task     *)
(* runs without interruption from one await to the next, and tasks that    *)
(* are suspended at an await resume in any order.                          *)
(***************************************************************************)
FE8_ID_PREFIX == 16678912

locations ==
  << << "Complete Prologue", 0 >>, << "Complete Chapter 1", 1 >>,
     << "Complete Chapter 2", 2 >>, << "Complete Chapter 3", 3 >>,
     << "Complete Chapter 4", 4 >>, << "Complete Chapter 5", 5 >>,
     << "Complete Chapter 5x", 6 >>, << "Complete Chapter 6", 7 >>,
     << "Complete Chapter 7", 8 >>, << "Complete Chapter 8", 9 >>,
     << "Complete Chapter 9", 10 >>, << "Complete Chapter 10", 11 >>,
     << "Complete Chapter 11", 12 >>, << "Complete Chapter 12", 13 >>,
     << "Complete Chapter 13", 14 >>, << "Complete Chapter 14", 15 >>,
     << "Complete Chapter 15", 16 >>, << "Complete Chapter 16", 17 >>,
     << "Complete Chapter 17", 18 >>, << "Complete Chapter 18", 19 >>,
     << "Complete Chapter 19", 20 >>, << "Complete Chapter 20", 21 >>,
     << "Defeat Lyon", 22 >>, << "Defeat Formortiis", 23 >>,
     << "Sieglinde Received", 24 >>, << "Siegmund Received", 25 >>,
     << "Gleipnir Received", 26 >>, << "Garm Received", 27 >>,
     << "Nidhogg Received", 28 >>, << "Vidofnir Received", 29 >>,
     << "Excalibur Received", 30 >>, << "Audhulma Received", 31 >>,
     << "Ivaldi Received", 32 >>, << "Latona Received", 33 >> >>

\* dict(locations)[name]
LocationFlag(name) == (CHOOSE l \in Range(locations) : l[1] = name)[2]

FOMORTIIS_FLAG == LocationFlag("Defeat Formortiis")

\* byte & (1 << i) != 0
BitSet(byte, i) == (byte \div (2 ^ i)) % 2 # 0

\* a flag id counted with seven bits to the byte
FlagIdNarrow(byte_i, i) == byte_i * 7 + i

\* flag_id = byte_i * 8 + i
FlagId(byte_i, i) == byte_i * 8 + i

\* the locals of handle_read_data before the flag bytes are read
NoLocals == [ local_checked_locations |-> {}, game_clear |-> FALSE ]

\* one pass of the inner loop body, for bit i of the byte at byte_i
DecodeBit(byte_i, byte, i, c, acc) ==
  IF ~BitSet(byte, i) THEN acc
  ELSE [ local_checked_locations |->
           IF FlagId(byte_i, i) + FE8_ID_PREFIX \in c.server_locations
           THEN acc.local_checked_locations \cup { FlagId(byte_i, i) + FE8_ID_PREFIX }
           ELSE acc.local_checked_locations,
         game_clear |-> acc.game_clear \/ FlagId(byte_i, i) = c.goal_flag ]

RECURSIVE DecodeBits(_, _, _, _, _)
\* for i in range(8)
DecodeBits(byte_i, byte, i, c, acc) ==
  IF i = 8 THEN acc
  ELSE DecodeBits(byte_i, byte, i + 1, c, DecodeBit(byte_i, byte, i, c, acc))

RECURSIVE DecodeBytes(_, _, _, _)
\* for byte_i, byte in enumerate(gba_data["flag_bytes"])
DecodeBytes(flag_bytes, byte_i, c, acc) ==
  IF byte_i = Len(flag_bytes) THEN acc
  ELSE DecodeBytes(flag_bytes, byte_i + 1, c,
                   DecodeBits(byte_i, flag_bytes[byte_i + 1], 0, c, acc))

\* the locals after the loops over the flag bytes of a message
Decode(gba_data, c) ==
  IF "flag_bytes" \in gba_data.keys
  THEN DecodeBytes(gba_data.flag_bytes, 0, c, NoLocals)
  ELSE NoLocals

\* the number of polls answered in one session
MaxPolls == 2

AllLocationIds == { l[2] + FE8_ID_PREFIX : l \in Range(locations) }

\* the location ids the server knows for the slot
ServerLocationChoices ==
  { AllLocationIds,
    { id \in AllLocationIds : id - FE8_ID_PREFIX < LocationFlag("Sieglinde Received") } }

\* the messages the connector script answers a poll with
PollChoices ==
  { [ keys |-> { "slot_name", "flag_bytes" }, flag_bytes |-> << 1 >> ],
    [ keys |-> { "slot_name" }, flag_bytes |-> << >> ],
    [ keys |-> { "flag_bytes" }, flag_bytes |-> << 1 >> ],
    [ keys |-> { "flag_bytes" }, flag_bytes |-> << 3, 0, 128 >> ],
    [ keys |-> { "flag_bytes" }, flag_bytes |-> << 3, 0, 0, 129, 6 >> ] }

CONNECTION_STATUS_TIMING_OUT ==
  "Connection timing out. Please restart your emulator and connector_fe8.lua."
CONNECTION_STATUS_REFUSED ==
  "Connection refused. Please start your emulator and connector_fe8.lua."
CONNECTION_STATUS_RESET ==
  "Connection reset. Please restart your emulator and connector_fe8.lua."
CONNECTION_STATUS_TENTATIVE == "Initial connection made"
CONNECTION_STATUS_CONNECTED == "Connected"
CONNECTION_STATUS_INITIAL == "Connection has not been initiated"

\* GBAContext.__init__, with the server's part of the context
InitCtx(awaiting_rom, server_locations) ==
  [ gba_streams |-> "None", gba_status |-> CONNECTION_STATUS_INITIAL,
    exit_event |-> FALSE, auth |-> "None", awaiting_rom |-> awaiting_rom,
    local_checked_locations |-> {}, server_locations |-> server_locations,
    finished_game |-> FALSE, goal_flag |-> FOMORTIIS_FLAG ]

InitRead ==
  \E awaiting_rom \in BOOLEAN, server_locations \in ServerLocationChoices :
    /\ ctx = InitCtx(awaiting_rom, server_locations)
    /\ tasks = << >>
    /\ outcome = << >>
    /\ pc = [ phase |-> "read", b |-> 0, i |-> 0 ]
    /\ input = << >>
    /\ rom = << >>
    /\ logic = << >>
    /\ character_jobs = EmptyStore
    /\ random = 0
    /\ hashseed = 0
    /\ run = 1
    /\ first = NoFirst
    /\ patch = NoPatch

\* async_start(handle_read_data(data_decoded, ctx))
Poll ==
  /\ pc.phase = "read"
  /\ Len(tasks) < MaxPolls
  /\ \E gba_data \in PollChoices :
       tasks' = Append(tasks, [ gba_data |-> gba_data, at |-> "start",
                                local_checked_locations |-> {}, game_clear |-> FALSE ])
  /\ UNCHANGED << rom, logic, character_jobs, random, pc, outcome, input, hashseed, run, first, patch, ctx >>

\* the end of handle_read_data: the goal report and its await
GoalStep(t, c, locals, msgs) ==
  /\ ctx' = c
  /\ IF ~c.finished_game /\ locals.game_clear
     THEN /\ outcome' = Append(msgs, [ cmd |-> "StatusUpdate", locations |-> {} ])
          /\ tasks' = [tasks EXCEPT ![t] = [@ EXCEPT !.at = "send_goal",
                          !.local_checked_locations = locals.local_checked_locations,
                          !.game_clear = locals.game_clear]]
     ELSE /\ outcome' = msgs
          /\ tasks' = [tasks EXCEPT ![t] = [@ EXCEPT !.at = "done",
                          !.local_checked_locations = locals.local_checked_locations,
                          !.game_clear = locals.game_clear]]

\* handle_read_data from the flag bytes on, up to its next await
FlagStep(t, c, locals) ==
  IF "flag_bytes" \in tasks[t].gba_data.keys
     /\ locals.local_checked_locations # c.local_checked_locations
  THEN /\ ctx' = [c EXCEPT !.local_checked_locations = locals.local_checked_locations]
       /\ outcome' = Append(outcome, [ cmd |-> "LocationChecks",
                                       locations |-> locals.local_checked_locations ])
       /\ tasks' = [tasks EXCEPT ![t] = [@ EXCEPT !.at = "send_checks",
                       !.local_checked_locations = locals.local_checked_locations,
                       !.game_clear = locals.game_clear]]
  ELSE IF "flag_bytes" \in tasks[t].gba_data.keys
       THEN GoalStep(t, c, locals, outcome)
       ELSE /\ ctx' = c
            /\ outcome' = outcome
            /\ tasks' = [tasks EXCEPT ![t].at = "done"]

\* a task starts: the slot name, then either the await of server_auth or
\* the flag bytes
HandleStart ==
  /\ pc.phase = "read"
  /\ \E t \in DOMAIN tasks :
       /\ tasks[t].at = "start"
       /\ \A u \in 1 .. t - 1 : tasks[u].at # "start"
       /\ IF "slot_name" \in tasks[t].gba_data.keys /\ ctx.auth = "None"
          THEN IF ctx.awaiting_rom
               THEN /\ ctx' = [ctx EXCEPT !.auth = "player"]
                    /\ tasks' = [tasks EXCEPT ![t].at = "server_auth"]
                    /\ outcome' = outcome
               ELSE FlagStep(t, [ctx EXCEPT !.auth = "player"],
                             Decode(tasks[t].gba_data, ctx))
          ELSE FlagStep(t, ctx, Decode(tasks[t].gba_data, ctx))
  /\ UNCHANGED << rom, logic, character_jobs, random, pc, input, hashseed, run, first, patch >>

\* await ctx.server_auth(False) returns
ResumeAuth ==
  /\ pc.phase = "read"
  /\ \E t \in DOMAIN tasks :
       /\ tasks[t].at = "server_auth"
       /\ FlagStep(t, ctx, Decode(tasks[t].gba_data, ctx))
  /\ UNCHANGED << rom, logic, character_jobs, random, pc, input, hashseed, run, first, patch >>

\* await ctx.send_msgs([LocationChecks]) returns
ResumeChecks ==
  /\ pc.phase = "read"
  /\ \E t \in DOMAIN tasks :
       /\ tasks[t].at = "send_checks"
       /\ GoalStep(t, ctx, tasks[t], outcome)
  /\ UNCHANGED << rom, logic, character_jobs, random, pc, input, hashseed, run, first, patch >>

\* await ctx.send_msgs([StatusUpdate]) returns
ResumeGoal ==
  /\ pc.phase = "read"
  /\ \E t \in DOMAIN tasks :
       /\ tasks[t].at = "send_goal"
       /\ tasks' = [tasks EXCEPT ![t].at = "done"]
  /\ UNCHANGED << rom, logic, character_jobs, random, pc, outcome, input, hashseed, run, first, patch, ctx >>

NextRead == Poll \/ HandleStart \/ ResumeAuth \/ ResumeChecks \/ ResumeGoal

SpecRead == InitRead /\ [][NextRead]_vars

\* the tasks that have read their message's flag bytes
Decoded == { t \in DOMAIN tasks : /\ tasks[t].at \in { "send_checks", "send_goal", "done" }
                                  /\ "flag_bytes" \in tasks[t].gba_data.keys }

\* the (byte index, bit index) pairs of a message's flag bytes
Bits(gba_data) == (0 .. Len(gba_data.flag_bytes) - 1) \X (0 .. 7)

\* bit `bit` of the flag bytes is set
FlagBit(gba_data, bit) == BitSet(gba_data.flag_bytes[bit[1] + 1], bit[2])

\* C22: a task that has read its flag bytes holds location id
\* FE8_ID_PREFIX + (8 * byte_index + bit_index) in its checked set exactly when
\* that bit is set and the id is a server location, and holds nothing else;
\* distinct bits give distinct ids; and its game_clear is true exactly when
\* the bit numbered by the final-boss location ("Defeat Formortiis") is set.
FlagDecoding ==
  \A t \in Decoded :
    LET gba_data == tasks[t].gba_data
    IN /\ \A bit \in Bits(gba_data) :
            (FE8_ID_PREFIX + (8 * bit[1] + bit[2]) \in tasks[t].local_checked_locations)
              <=> /\ FlagBit(gba_data, bit)
                  /\ FE8_ID_PREFIX + (8 * bit[1] + bit[2]) \in ctx.server_locations
       /\ tasks[t].local_checked_locations \subseteq
            { FE8_ID_PREFIX + (8 * bit[1] + bit[2]) : bit \in Bits(gba_data) }
       /\ \A b1, b2 \in Bits(gba_data) :
            b1 # b2 => 8 * b1[1] + b1[2] # 8 * b2[1] + b2[2]
       /\ tasks[t].game_clear
            <=> \E bit \in Bits(gba_data) :
                  /\ 8 * bit[1] + bit[2] = LocationFlag("Defeat Formortiis")
                  /\ FlagBit(gba_data, bit)

\* one task decoded a cleared game, another found a set bit that is no
\* server location, and a third a bit in the second half of a later byte
FlagDecodingWitness ==
  /\ \E t \in Decoded : tasks[t].game_clear /\ tasks[t].local_checked_locations # {}
  /\ \E t \in Decoded :
       \E bit \in Bits(tasks[t].gba_data) :
         /\ FlagBit(tasks[t].gba_data, bit)
         /\ FE8_ID_PREFIX + (8 * bit[1] + bit[2]) \notin tasks[t].local_checked_locations
  /\ \E t \in Decoded : FE8_ID_PREFIX + 31 \in tasks[t].local_checked_locations

\* every task has finished
Quiet == \A t \in DOMAIN tasks : tasks[t].at = "done"

\* the polls that carried flag bytes
FlagPolls == { t \in DOMAIN tasks : "flag_bytes" \in tasks[t].gba_data.keys }

\* C30: once every started handler has finished,
\* ctx.local_checked_locations is the set decoded from the most recent poll
\* that carried flag bytes, and the last LocationChecks message carries
\* that set whenever it differs from the initial empty set.
ReportsFollowLatestPoll ==
  (Quiet /\ FlagPolls # {}) =>
    LET last == CHOOSE t \in FlagPolls : \A u \in FlagPolls : u <= t
        current == Decode(tasks[last].gba_data, ctx).local_checked_locations
        reports == SelectSeq(outcome, LAMBDA m : m.cmd = "LocationChecks")
    IN /\ ctx.local_checked_locations = current
       /\ current # {} => /\ reports # << >>
                          /\ reports[Len(reports)].locations = current

(***************************************************************************)
(* Options: the minimum endgame level cap.                                 *)
(***************************************************************************)
\* rounding to the multiple that follows, also from a multiple
round_up_past(x, mod) == ((x + mod) \div mod) * mod

\* ((x + mod - 1) // mod) * mod
round_up_to(x, mod) == ((x + mod - 1) \div mod) * mod

\* MinimumEndgameLevelCapRange.range_start, range_end
range_start == 10
range_end == 40

\* the largest value an option is constructed from
MaxOption == 60

\* Range.__init__(value): a value outside the range is refused
RangeInit(value) ==
  IF value < range_start \/ value > range_end
  THEN [ ok |-> FALSE, value |-> 0 ]
  ELSE [ ok |-> TRUE, value |-> value ]

\* MinimumEndgameLevelCapRange.__init__(value)
MinimumEndgameLevelCapRange(value) == RangeInit(round_up_to(value, 5))

InitOption ==
  \E value \in 0 .. MaxOption :
    /\ input = [ value |-> value ]
    /\ pc = [ phase |-> "option", b |-> 0, i |-> 0 ]
    /\ outcome = << >>
    /\ rom = << >>
    /\ logic = << >>
    /\ character_jobs = EmptyStore
    /\ random = 0
    /\ hashseed = 0
    /\ run = 1
    /\ first = NoFirst
    /\ patch = NoPatch
    /\ ctx = NoCtx
    /\ tasks = << >>

\* the option is constructed from the chosen value
ConstructLevelCap ==
  /\ pc.phase = "option"
  /\ outcome' = MinimumEndgameLevelCapRange(input.value)
  /\ pc' = [pc EXCEPT !.phase = "constructed"]
  /\ UNCHANGED << rom, logic, character_jobs, random, input, ctx, tasks, hashseed, run, first, patch >>

NextOption == ConstructLevelCap

SpecOption == InitOption /\ [][NextOption]_vars

\* C23: for every value v in 10..40 the option is constructed, and its
\* stored value is the smallest multiple of 5 that is at least v and lies in
\* 10..40.
LevelCapRounded ==
  (pc.phase = "constructed" /\ input.value \in 10 .. 40) =>
    /\ outcome.ok
    /\ outcome.value % 5 = 0
    /\ outcome.value >= input.value
    /\ \A m \in 0 .. MaxOption + 5 : (m % 5 = 0 /\ m >= input.value) => outcome.value <= m
    /\ outcome.value \in 10 .. 40

\* 36 was rounded up to 40
LevelCapWitness ==
  /\ pc.phase = "constructed"
  /\ input.value = 36
  /\ outcome.ok
  /\ outcome.value = 40

(***************************************************************************)
(* weapon_usable on its own: every catalog weapon, every catalog class,    *)
(* and a logic without must_fight, with must_fight true and with           *)
(* must_fight false.                                                       *)
(***************************************************************************)
UsableLogics ==
  { EmptyLogic, With(EmptyLogic, "must_fight", PyTrue),
    With(EmptyLogic, "must_fight", PyFalse) }

InitUsable ==
  \E weapon \in Range(item_data), job \in Range(raw_job_data), lg \in UsableLogics :
    /\ input = [ weapon |-> weapon, job |-> job, logic |-> lg ]
    /\ pc = [ phase |-> "usable", b |-> 0, i |-> 0 ]
    /\ outcome = << >>
    /\ rom = << >>
    /\ logic = << >>
    /\ character_jobs = EmptyStore
    /\ random = 0
    /\ hashseed = 0
    /\ run = 1
    /\ first = NoFirst
    /\ patch = NoPatch
    /\ ctx = NoCtx
    /\ tasks = << >>

\* weapon_usable(weapon, job, logic)
WeaponUsable ==
  /\ pc.phase = "usable"
  /\ outcome' = [ usable |-> weapon_usable(input.weapon, input.job, input.logic) ]
  /\ pc' = [pc EXCEPT !.phase = "answered"]
  /\ UNCHANGED << rom, logic, character_jobs, random, input, ctx, tasks, hashseed, run, first, patch >>

NextUsable == WeaponUsable

SpecUsable == InitUsable /\ [][NextUsable]_vars

\* C25: weapon_usable answers true exactly when the class can use the
\* weapon's kind, every lock of the weapon is a tag of the class, and it is
\* not the case that must_fight is true while the kind is Item, Staff or
\* Ring; so must_fight present but false excludes nothing.
WeaponUsableByTruth ==
  pc.phase = "answered" =>
    (outcome.usable
       <=> /\ input.weapon.kind \in input.job.usable_weapons
           /\ input.weapon.locks \subseteq input.job.tags
           /\ ~(/\ FlagSet(input.logic, "must_fight")
                /\ input.weapon.kind \in { ITEM, STAFF, RING }))

(***************************************************************************)
(* The client: gba_send_receive_task.  pc.phase is the position in the     *)
(* loop: "loop" is the while test (the iteration boundary), "connect",     *)
(* "drain" and "readline" are the three awaits, "status" is the final      *)
(* if/elif; "returned" is the end of the task and "crashed" an exception   *)
(* that leaves it.  outcome holds the local error_status.  What the        *)
(* emulator's side does at an await is the environment's choice.           *)
(***************************************************************************)
\* the number of loop iterations followed
MaxRounds == 4

\* the message every answered poll carries here
LinkMessage == [ keys |-> { "slot_name", "flag_bytes" }, flag_bytes |-> << 1 >> ]

InitLink ==
  /\ ctx = InitCtx(FALSE, AllLocationIds)
  /\ pc = [ phase |-> "loop", b |-> 0, i |-> 0 ]
  /\ outcome = [ error_status |-> "None" ]
  /\ tasks = << >>
  /\ input = << >>
  /\ rom = << >>
  /\ logic = << >>
  /\ character_jobs = EmptyStore
  /\ random = 0
  /\ hashseed = 0
  /\ run = 1
  /\ first = NoFirst
  /\ patch = NoPatch

\* while not ctx.exit_event.is_set(): error_status = None, then the branch
\* on ctx.gba_streams; the payload is handed to the writer before the drain
LoopTest ==
  /\ pc.phase = "loop"
  /\ pc.b < MaxRounds
  /\ IF ctx.exit_event
     THEN /\ pc' = [pc EXCEPT !.phase = "returned"]
          /\ outcome' = outcome
     ELSE /\ pc' = [pc EXCEPT !.phase = IF ctx.gba_streams = "None" THEN "connect" ELSE "drain",
                              !.b = @ + 1]
          /\ outcome' = [ error_status |-> "None" ]
  /\ UNCHANGED << rom, logic, character_jobs, random, input, ctx, tasks, hashseed, run, first, patch >>

\* await asyncio.wait_for(asyncio.open_connection(...), timeout=10)
Connect ==
  /\ pc.phase = "connect"
  /\ \E result \in { "connected", "TimeoutError", "ConnectionRefusedError" } :
       ctx' = IF result = "connected"
              THEN [ctx EXCEPT !.gba_streams = "streams",
                               !.gba_status = CONNECTION_STATUS_TENTATIVE]
              ELSE IF result = "TimeoutError"
              THEN [ctx EXCEPT !.gba_status = CONNECTION_STATUS_TIMING_OUT]
              ELSE [ctx EXCEPT !.gba_status = CONNECTION_STATUS_REFUSED]
  /\ pc' = [pc EXCEPT !.phase = "loop"]
  /\ UNCHANGED << rom, logic, character_jobs, random, outcome, input, tasks, hashseed, run, first, patch >>

\* await asyncio.wait_for(writer.drain(), timeout=2)
Drain ==
  /\ pc.phase = "drain"
  /\ \E result \in { "drained", "TimeoutError", "ConnectionResetError" } :
       IF result = "drained"
       THEN /\ ctx' = ctx
            /\ outcome' = outcome
       ELSE /\ ctx' = [ctx EXCEPT !.gba_streams = "None"]
            /\ outcome' = [ error_status |->
                              IF result = "TimeoutError" THEN CONNECTION_STATUS_TIMING_OUT
                              ELSE CONNECTION_STATUS_RESET ]
  /\ pc' = [pc EXCEPT !.phase = "readline"]
  /\ UNCHANGED << rom, logic, character_jobs, random, input, tasks, hashseed, run, first, patch >>

\* await asyncio.wait_for(reader.readline(), timeout=5), json.loads, the
\* version test and async_start; the read is attempted whatever the drain
\* did.  A line that is not a JSON object with a script_version (the empty
\* line of a closed stream among them) raises an exception the loop does
\* not catch.
Readline ==
  /\ pc.phase = "readline"
  /\ \E result \in { "line", "other_version", "malformed", "TimeoutError",
                     "ConnectionResetError" } :
       CASE result = "line" ->
              /\ tasks' = Append(tasks, [ gba_data |-> LinkMessage, at |-> "start",
                                          local_checked_locations |-> {},
                                          game_clear |-> FALSE ])
              /\ pc' = [pc EXCEPT !.phase = "status"]
              /\ UNCHANGED << ctx, outcome >>
         [] result = "other_version" ->
              /\ pc' = [pc EXCEPT !.phase = "returned"]
              /\ UNCHANGED << ctx, outcome, tasks >>
         [] result = "malformed" ->
              /\ pc' = [pc EXCEPT !.phase = "crashed"]
              /\ UNCHANGED << ctx, outcome, tasks >>
         [] OTHER ->
              /\ ctx' = [ctx EXCEPT !.gba_streams = "None"]
              /\ outcome' = [ error_status |->
                                IF result = "TimeoutError" THEN CONNECTION_STATUS_TIMING_OUT
                                ELSE CONNECTION_STATUS_RESET ]
              /\ pc' = [pc EXCEPT !.phase = "status"]
              /\ tasks' = tasks
  /\ UNCHANGED << rom, logic, character_jobs, random, input, hashseed, run, first, patch >>

\* if error_status: ... elif ctx.gba_status == CONNECTION_STATUS_TENTATIVE: ...
Status ==
  /\ pc.phase = "status"
  /\ ctx' = IF outcome.error_status # "None"
            THEN [ctx EXCEPT !.gba_status = outcome.error_status]
            ELSE IF ctx.gba_status = CONNECTION_STATUS_TENTATIVE
            THEN [ctx EXCEPT !.gba_status = CONNECTION_STATUS_CONNECTED]
            ELSE ctx
  /\ pc' = [pc EXCEPT !.phase = "loop"]
  /\ UNCHANGED << rom, logic, character_jobs, random, outcome, input, tasks, hashseed, run, first, patch >>

\* ctx.exit_event.set(), by the client's shutdown
SetExit ==
  /\ pc.phase \in { "loop", "connect", "drain", "readline", "status" }
  /\ ~ctx.exit_event
  /\ ctx' = [ctx EXCEPT !.exit_event = TRUE]
  /\ UNCHANGED << rom, logic, character_jobs, random, pc, outcome, input, tasks, hashseed, run, first, patch >>

NextLink == LoopTest \/ Connect \/ Drain \/ Readline \/ Status \/ SetExit

SpecLink == InitLink /\ [][NextLink]_vars

\* every await of the loop is bounded by wait_for and returns or raises, and
\* the statements between two awaits run to the next one
SpecLinkFair ==
  SpecLink /\ WF_vars(LoopTest \/ Connect \/ Drain \/ Readline \/ Status)

ErrorStatuses == { CONNECTION_STATUS_TIMING_OUT, CONNECTION_STATUS_RESET }

\* at the iteration boundary a Tentative or Connected status has its streams
LinkBoundary ==
  (pc.phase = "loop"
     /\ ctx.gba_status \in { CONNECTION_STATUS_TENTATIVE, CONNECTION_STATUS_CONNECTED })
    => ctx.gba_streams # "None"

\* the status becomes Connected only at the end of a round without error on
\* a tentative connection
LinkConnectedAfterCleanRound ==
  [][(ctx.gba_status # CONNECTION_STATUS_CONNECTED
        /\ ctx'.gba_status = CONNECTION_STATUS_CONNECTED) =>
       /\ pc.phase = "status"
       /\ outcome.error_status = "None"
       /\ ctx.gba_status = CONNECTION_STATUS_TENTATIVE
       /\ ctx.gba_streams # "None"]_vars

\* C29: after a timeout or a connection reset during the write or the read
\* the loop comes back to its iteration boundary with the stream discarded
\* and the matching error status set (from where, unless exit is requested,
\* it connects again); the status becomes Connected only after a round
\* without error on a tentative connection; and at every iteration boundary
\* a Tentative or Connected status implies that the streams are there.
LinkRecovers ==
  /\ (outcome.error_status # "None")
       ~> (/\ pc.phase = "loop"
           /\ ctx.gba_streams = "None"
           /\ ctx.gba_status \in ErrorStatuses)
  /\ LinkConnectedAfterCleanRound
  /\ []LinkBoundary

====
